---- MODULE Spec2Model ----
(***************************************************************************)
(* State-machine model of the Todo backend (src/backend/src) and of the    *)
(* agent tools that call it (src/agent/src).                               *)
(*                                                                         *)
(* The database tables are sets of rows, the wall clock datetime.utcnow()  *)
(* is the variable now, and every HTTP request is one atomic action that   *)
(* runs the authentication dependency, the route handler and the           *)
(* repository calls it makes, and records the response in resp.            *)
(*                                                                         *)
(* Python's None is the string "None"; a request field the client did not  *)
(* send (pydantic's "unset") is the string "Unset".                        *)
(***************************************************************************)
EXTENDS Integers, Sequences, FiniteSets, TLC

VARIABLES
    now,         \* the reading of datetime.utcnow() at the latest request
    users,       \* rows of table "users"
    tasks,       \* rows of table "tasks"
    nextTaskId,  \* number of uuid4 task ids drawn so far, plus one
    sessions,    \* rows of table "sessions"
    nextSession, \* number of session tokens drawn so far, plus one
    loggedOut,   \* history: tokens a successful logout was made with
    conversations, \* rows of table "conversations"
    messages,    \* rows of table "messages", in the order they were inserted
    inflight,    \* requests served side by side: what each one has read and set
    resp,        \* the latest HTTP request and the response it got
    result       \* the value the latest service or tool call returned

vars == <<now, users, tasks, nextTaskId, sessions, nextSession, loggedOut,
          conversations, messages, inflight, resp, result>>

None == "None"
Unset == "Unset"

-----------------------------------------------------------------------------
(* Bounds of the model.                                                    *)

MaxTasks == 2        \* task ids drawn by create_task
MaxTime == 2         \* last clock reading of the task specifications
MaxSessions == 2     \* session tokens drawn by create_session
MaxHalfLives == 3    \* session clock: half session lifetimes after the start
MaxUsers == 4        \* rows of table "users"

-----------------------------------------------------------------------------
(* Program constants.                                                      *)

ACCESS_TOKEN_EXPIRE_MINUTES == 30
TitleMaxLength == 200
ImportTime == 0      \* the clock reading when the model classes were imported
StartTime == ImportTime + 1   \* the clock reading when the server starts
SESSION_EXPIRE_DAYS == 30
SessionLifetime == SESSION_EXPIRE_DAYS * 24 * 60   \* timedelta(days=30), minutes

UserIds == {"u1", "u2"}

TaskStatus == {"pending", "in_progress", "completed"}
TaskPriority == {"low", "medium", "high", "critical"}

RECURSIVE Repeat(_, _)
Repeat(s, n) == IF n = 0 THEN "" ELSE s \o Repeat(s, n - 1)

\* A title one character longer than the column allows.
LongTitle == Repeat("x", TitleMaxLength + 1)

-----------------------------------------------------------------------------
(* Bearer tokens (utils/auth.py).  A token is either not a JWT at all      *)
(* (form "garbage") or a JWT with a subject claim (None when missing), an  *)
(* expiry and a signature that is good (made with SECRET_KEY) or bad.      *)

Jwt(sub, exp, sig) == [sub |-> sub, exp |-> exp, sig |-> sig, form |-> "jwt"]
Garbage == [sub |-> None, exp |-> 0, sig |-> "bad", form |-> "garbage"]

\* create_access_token: the payload plus exp = utcnow() + expires_delta,
\* signed with SECRET_KEY.
create_access_token(sub, expires_delta, t) == Jwt(sub, t + expires_delta, "good")

\* jwt.decode of PyJWT: the exception it raises, or "ok".
jwt_decode(token, t) ==
    IF token.form # "jwt" THEN "DecodeError"
    ELSE IF token.sig # "good" THEN "InvalidSignatureError"
    ELSE IF token.exp <= t THEN "ExpiredSignatureError"
    ELSE "ok"

\* verify_access_token: the payload, None, or an exception that escapes.
\* The handler chain is `except jwt.ExpiredSignatureError` followed by
\* `except jwt.JWTError`; the module jwt (PyJWT, `import jwt`) has no
\* attribute JWTError, so for any other exception of jwt.decode the lookup
\* of the second handler's class raises AttributeError.
verify_access_token(token, t) ==
    LET d == jwt_decode(token, t) IN
    IF d = "ok" THEN [sub |-> token.sub, kind |-> "payload"]
    ELSE IF d = "ExpiredSignatureError" THEN [sub |-> None, kind |-> "none"]
    ELSE [sub |-> None, kind |-> "raise"]

CredentialsError ==
    [code |-> 401, detail |-> "Could not validate credentials"]
ServerError ==
    [code |-> 500, detail |-> "Internal Server Error"]

\* get_current_user_id / require_authentication (middleware/auth.py): the
\* user id of the token, or the error response of the request.
get_current_user_id(token, t) ==
    LET payload == verify_access_token(token, t) IN
    IF payload.kind = "raise"
        THEN [ok |-> FALSE, user_id |-> None, err |-> ServerError]
    ELSE IF payload.kind = "none"
        THEN [ok |-> FALSE, user_id |-> None, err |-> CredentialsError]
    ELSE IF payload.sub = None
        THEN [ok |-> FALSE, user_id |-> None, err |-> CredentialsError]
    ELSE [ok |-> TRUE, user_id |-> payload.sub, err |-> CredentialsError]

-----------------------------------------------------------------------------
(* Task rows and request payloads (models/task.py, schemas/task.py).       *)

\* The JSON body of a create or update request: each field is a value,
\* None (an explicit null) or Unset (not sent).
Payload(title, description, status, priority, due_date) ==
    [title |-> title, description |-> description, status |-> status,
     priority |-> priority, due_date |-> due_date]

NoPayload == Payload(Unset, Unset, Unset, Unset, Unset)

\* schemas.TaskCreate: title is a required str with no length constraint,
\* status and priority are enum members when sent.
TaskCreateAccepts(data) ==
    /\ data.title \notin {Unset, None}
    /\ data.status \in TaskStatus \cup {Unset}
    /\ data.priority \in TaskPriority \cup {Unset}

\* schemas.TaskCreate after validation: the defaults fill the unset fields.
TaskCreate(data) ==
    [title |-> data.title,
     description |-> IF data.description = Unset THEN None ELSE data.description,
     status |-> IF data.status = Unset THEN "pending" ELSE data.status,
     priority |-> IF data.priority = Unset THEN "medium" ELSE data.priority,
     due_date |-> IF data.due_date = Unset THEN None ELSE data.due_date]

\* schemas.TaskUpdate: every field is Optional, the enums are checked.
TaskUpdateAccepts(data) ==
    /\ data.status \in TaskStatus \cup {Unset, None}
    /\ data.priority \in TaskPriority \cup {Unset, None}

\* models.Task(...): a table model, built without validation; id is a
\* fresh uuid4, created_at and updated_at take the class-level default
\* datetime.utcnow(), evaluated once when the module was imported.
Task(id, title, description, status, priority, user_id, due_date) ==
    [id |-> id, user_id |-> user_id, title |-> title,
     description |-> description, status |-> status, priority |-> priority,
     due_date |-> due_date, created_at |-> ImportTime, updated_at |-> ImportTime]

\* What the tasks table accepts at commit: VARCHAR(200) NOT NULL title,
\* NOT NULL status and priority, user_id a foreign key into users.  The
\* min_length of the model field is no column constraint.
TaskRowAccepted(row, U) ==
    /\ row.title # None
    /\ Len(row.title) <= TitleMaxLength
    /\ row.status # None
    /\ row.priority # None
    /\ row.user_id \in {u.id : u \in U}

-----------------------------------------------------------------------------
(* TaskRepository (repositories/task_repository.py).  An Optional[Task] is *)
(* a set of at most one row.                                               *)

\* Mutant of get_task_by_id: the owner condition of the query is dropped.
Mutant_get_task_by_id(T, task_id, user_id) == {t \in T : t.id = task_id}

\* select(Task).where(Task.id == task_id, Task.user_id == user_id).first()
get_task_by_id(T, task_id, user_id) ==
    {t \in T : t.id = task_id /\ t.user_id = user_id}

\* The row the repository adds for a create request.
create_task(task_data, user_id, id) ==
    Task(id, task_data.title, task_data.description, task_data.status,
         task_data.priority, user_id, task_data.due_date)

\* Mutant of MatchingTasks: the owner condition of the query is dropped.
Mutant_MatchingTasks(T, user_id, status, priority) ==
    {t \in T : /\ (status \notin {None, ""} => t.status = status)
               /\ (priority \notin {None, ""} => t.priority = priority)}

\* The rows get_tasks_by_user selects before pagination.
MatchingTasks(T, user_id, status, priority) ==
    {t \in T : /\ t.user_id = user_id
               /\ (status \notin {None, ""} => t.status = status)
               /\ (priority \notin {None, ""} => t.priority = priority)}

Min(a, b) == IF a <= b THEN a ELSE b
Max(a, b) == IF a >= b THEN a ELSE b

\* get_tasks_by_user: the statement has OFFSET and LIMIT but no ORDER BY, so
\* the database may return any offset-th to (offset+limit)-th rows of any
\* order of the matching rows: every subset of that size is a possible
\* result.
\* The limit is applied as it came: the statement has no upper bound on it.
get_tasks_by_user(T, user_id, status, priority, limit, offset) ==
    LET matching == MatchingTasks(T, user_id, status, priority)
        n == Min(limit, Max(Cardinality(matching) - offset, 0))
    IN IF n = Cardinality(matching) THEN {matching}
       ELSE {rows \in SUBSET matching : Cardinality(rows) = n}

\* Mutant of ApplyUpdate: the whole body is dumped, so that a field that was
\* not sent is set to its default.
Mutant_ApplyUpdate(task, task_data, t) ==
    [id |-> task.id, user_id |-> task.user_id,
     title |-> IF task_data.title = Unset THEN task.title ELSE task_data.title,
     description |-> IF task_data.description = Unset THEN None
                     ELSE task_data.description,
     status |-> IF task_data.status = Unset THEN task.status ELSE task_data.status,
     priority |-> IF task_data.priority = Unset THEN task.priority
                  ELSE task_data.priority,
     due_date |-> IF task_data.due_date = Unset THEN None
                  ELSE task_data.due_date,
     created_at |-> task.created_at, updated_at |-> t]

\* setattr for every field of model_dump(exclude_unset=True), then the
\* timestamp.
ApplyUpdate(task, task_data, t) ==
    [id |-> task.id, user_id |-> task.user_id,
     title |-> IF task_data.title = Unset THEN task.title ELSE task_data.title,
     description |-> IF task_data.description = Unset THEN task.description
                     ELSE task_data.description,
     status |-> IF task_data.status = Unset THEN task.status ELSE task_data.status,
     priority |-> IF task_data.priority = Unset THEN task.priority
                  ELSE task_data.priority,
     due_date |-> IF task_data.due_date = Unset THEN task.due_date
                  ELSE task_data.due_date,
     created_at |-> task.created_at, updated_at |-> t]

\* update_task: the updated row (none when the task is not the user's), the
\* table afterwards, and whether the commit went through.
update_task(T, U, task_id, user_id, task_data, t) ==
    LET found == get_task_by_id(T, task_id, user_id) IN
    IF found = {} THEN [task |-> {}, store |-> T, committed |-> TRUE]
    ELSE LET old == CHOOSE x \in found : TRUE
             new == ApplyUpdate(old, task_data, t)
         IN IF TaskRowAccepted(new, U)
            THEN [task |-> {new}, store |-> (T \ {old}) \cup {new}, committed |-> TRUE]
            ELSE [task |-> {}, store |-> T, committed |-> FALSE]

\* Mutant of delete_task: the row is looked up by id alone.
Mutant_delete_task(T, task_id, user_id) ==
    LET found == {t \in T : t.id = task_id} IN
    IF found = {} THEN [deleted |-> FALSE, store |-> T]
    ELSE [deleted |-> TRUE, store |-> T \ found]

\* delete_task: True and the row removed, or False.
delete_task(T, task_id, user_id) ==
    LET found == get_task_by_id(T, task_id, user_id) IN
    IF found = {} THEN [deleted |-> FALSE, store |-> T]
    ELSE [deleted |-> TRUE, store |-> T \ found]

\* Mutant of complete_task: a task that is already completed is returned as
\* it is, without the write.
Mutant_complete_task(T, task_id, user_id, t) ==
    LET found == get_task_by_id(T, task_id, user_id) IN
    IF found = {} THEN [task |-> {}, store |-> T]
    ELSE LET old == CHOOSE x \in found : TRUE
             new == IF old.status = "completed" THEN old
                    ELSE [old EXCEPT !.status = "completed", !.updated_at = t]
         IN [task |-> {new}, store |-> (T \ {old}) \cup {new}]

\* complete_task: status "completed" and the timestamp.
complete_task(T, task_id, user_id, t) ==
    LET found == get_task_by_id(T, task_id, user_id) IN
    IF found = {} THEN [task |-> {}, store |-> T]
    ELSE LET old == CHOOSE x \in found : TRUE
             new == [old EXCEPT !.status = "completed", !.updated_at = t]
         IN [task |-> {new}, store |-> (T \ {old}) \cup {new}]

-----------------------------------------------------------------------------
(* Route handlers of api/tasks.py.  Each yields the response (status code, *)
(* detail, the task rows of the body), the tasks table afterwards, and     *)
(* whether the handler reached the database.                               *)

Response(code, detail, body, store, db) ==
    [code |-> code, detail |-> detail, body |-> body, store |-> store, db |-> db]

TaskNotFound == "Task not found or doesn't belong to user"

\* uuid.UUID(task_id) succeeds: path ids are numbers, 0 is a string that is
\* no UUID.
IsUUID(task_id) == task_id >= 1

\* Depends(require_authentication) runs before the handler body: on failure
\* the request ends with the dependency's error and the body never runs.
Protected(token, t, T, out) ==
    LET auth == get_current_user_id(token, t) IN
    IF auth.ok THEN out
    ELSE Response(auth.err.code, auth.err.detail, {}, T, FALSE)

\* POST /tasks/
route_create_task(T, U, data, current_user_id, id) ==
    IF ~TaskCreateAccepts(data)
    THEN Response(422, "validation error", {}, T, FALSE)
    ELSE LET task == create_task(TaskCreate(data), current_user_id, id) IN
         IF TaskRowAccepted(task, U)
         THEN Response(201, "", {task}, T \cup {task}, TRUE)
         ELSE Response(500, "Internal Server Error", {}, T, TRUE)

\* GET /tasks/ with the rows the database returned
route_get_tasks(T, rows) == Response(200, "", rows, T, TRUE)

\* GET /tasks/{task_id}
route_get_task(T, task_id, current_user_id) ==
    IF ~IsUUID(task_id)
    THEN Response(400, "Invalid task ID format", {}, T, FALSE)
    ELSE LET task == get_task_by_id(T, task_id, current_user_id) IN
         IF task = {} THEN Response(404, TaskNotFound, {}, T, TRUE)
         ELSE Response(200, "", task, T, TRUE)

\* PUT /tasks/{task_id}
route_update_task(T, U, task_id, data, current_user_id, t) ==
    IF ~TaskUpdateAccepts(data)
    THEN Response(422, "validation error", {}, T, FALSE)
    ELSE IF ~IsUUID(task_id)
    THEN Response(400, "Invalid task ID format", {}, T, FALSE)
    ELSE LET r == update_task(T, U, task_id, current_user_id, data, t) IN
         IF ~r.committed THEN Response(500, "Internal Server Error", {}, T, TRUE)
         ELSE IF r.task = {} THEN Response(404, TaskNotFound, {}, T, TRUE)
         ELSE Response(200, "", r.task, r.store, TRUE)

\* DELETE /tasks/{task_id}
route_delete_task(T, task_id, current_user_id) ==
    IF ~IsUUID(task_id)
    THEN Response(400, "Invalid task ID format", {}, T, FALSE)
    ELSE LET r == delete_task(T, task_id, current_user_id) IN
         IF ~r.deleted THEN Response(404, TaskNotFound, {}, T, TRUE)
         ELSE Response(200, "Task successfully deleted", {}, r.store, TRUE)

\* PATCH /tasks/{task_id}/complete
route_complete_task(T, task_id, current_user_id, t) ==
    IF ~IsUUID(task_id)
    THEN Response(400, "Invalid task ID format", {}, T, FALSE)
    ELSE LET r == complete_task(T, task_id, current_user_id, t) IN
         IF r.task = {} THEN Response(404, TaskNotFound, {}, T, TRUE)
         ELSE Response(200, "", r.task, r.store, TRUE)

-----------------------------------------------------------------------------
(* The requests as actions.  d is the time that passed since the previous  *)
(* request; the handler reads the clock at now + d.  Requests are handled  *)
(* one at a time: resp holds the response until it is delivered.           *)

Record(op, token, tid, req, limit, offset, out) ==
    [op |-> op, token |-> token, tid |-> tid, req |-> req,
     limit |-> limit, offset |-> offset,
     code |-> out.code, detail |-> out.detail, body |-> out.body, db |-> out.db]

NoResponse ==
    Record("none", Garbage, 0, NoPayload, 0, 0, Response(0, "", {}, {}, FALSE))

\* No service or tool call has returned.
NoResult == [call |-> "none"]

\* One HTTP exchange with the task API.
TaskCall(d, op, token, tid, req, limit, offset, out) ==
    /\ resp = NoResponse
    /\ now + d <= MaxTime
    /\ now' = now + d
    /\ tasks' = out.store
    /\ resp' = Record(op, token, tid, req, limit, offset, out)
    /\ UNCHANGED <<users, sessions, nextSession, loggedOut, conversations,
                   inflight, messages>>

\* A request a client sends to the task API itself.
TaskRequest(d, op, token, tid, req, limit, offset, out) ==
    /\ TaskCall(d, op, token, tid, req, limit, offset, out)
    /\ UNCHANGED result

CreateTask(d, token, data) ==
    /\ nextTaskId <= MaxTasks
    /\ LET uid == get_current_user_id(token, now + d).user_id
           out == Protected(token, now + d, tasks,
                            route_create_task(tasks, users, data, uid, nextTaskId))
       IN /\ TaskRequest(d, "create", token, 0, data, 0, 0, out)
          /\ nextTaskId' = IF out.code = 201 THEN nextTaskId + 1 ELSE nextTaskId

GetTasks(d, token, status_filter, priority_filter, limit, offset) ==
    LET uid == get_current_user_id(token, now + d).user_id IN
    /\ resp = NoResponse
    /\ \E rows \in get_tasks_by_user(tasks, uid, status_filter, priority_filter,
                                  limit, offset) :
           /\ TaskRequest(d, "list", token, 0,
                          Payload(Unset, Unset, status_filter, priority_filter, Unset),
                          limit, offset,
                          Protected(token, now + d, tasks,
                                    route_get_tasks(tasks, rows)))
           /\ UNCHANGED nextTaskId

GetTask(d, token, task_id) ==
    LET uid == get_current_user_id(token, now + d).user_id IN
    /\ TaskRequest(d, "get", token, task_id, NoPayload, 0, 0,
                   Protected(token, now + d, tasks, route_get_task(tasks, task_id, uid)))
    /\ UNCHANGED nextTaskId

UpdateTask(d, token, task_id, data) ==
    LET uid == get_current_user_id(token, now + d).user_id IN
    /\ TaskRequest(d, "update", token, task_id, data, 0, 0,
                   Protected(token, now + d, tasks,
                             route_update_task(tasks, users, task_id, data, uid, now + d)))
    /\ UNCHANGED nextTaskId

DeleteTask(d, token, task_id) ==
    LET uid == get_current_user_id(token, now + d).user_id IN
    /\ TaskRequest(d, "delete", token, task_id, NoPayload, 0, 0,
                   Protected(token, now + d, tasks, route_delete_task(tasks, task_id, uid)))
    /\ UNCHANGED nextTaskId

CompleteTask(d, token, task_id) ==
    LET uid == get_current_user_id(token, now + d).user_id IN
    /\ TaskRequest(d, "complete", token, task_id, NoPayload, 0, 0,
                   Protected(token, now + d, tasks,
                             route_complete_task(tasks, task_id, uid, now + d)))
    /\ UNCHANGED nextTaskId

\* The response leaves the server; the next request can be taken.
Deliver ==
    /\ (resp # NoResponse \/ result.call # "none")
    /\ resp' = NoResponse
    /\ result' = NoResult
    /\ UNCHANGED <<now, users, tasks, nextTaskId, sessions, nextSession, loggedOut,
                   inflight, conversations, messages>>

-----------------------------------------------------------------------------
(* Users (models/user.py) and password hashing (utils/auth.py).            *)

\* pwd_context.hash / pwd_context.verify: a bcrypt hash verifies exactly the
\* password it was made from.
get_password_hash(password) == <<"bcrypt", password>>
verify_password(plain_password, hashed_password) ==
    hashed_password = get_password_hash(plain_password)

User(id, email, username, hashed_password) ==
    [id |-> id, email |-> email, username |-> username,
     hashed_password |-> hashed_password]

-----------------------------------------------------------------------------
(* The task API under requests of two registered users.                    *)

RegisteredUsers ==
    {User("u1", "e1", "n1", get_password_hash("p1")),
     User("u2", "e2", "n2", get_password_hash("p2"))}

\* The bearer tokens clients present: the tokens login issued to the two
\* users at StartTime, and one token of each invalid kind.
TokenOf(user_id) ==
    create_access_token(user_id, ACCESS_TOKEN_EXPIRE_MINUTES, StartTime)
ExpiredToken ==
    create_access_token("u1", ACCESS_TOKEN_EXPIRE_MINUTES,
                        StartTime - ACCESS_TOKEN_EXPIRE_MINUTES)
ForgedToken == Jwt("u1", StartTime + ACCESS_TOKEN_EXPIRE_MINUTES, "bad")
NoSubToken == Jwt(None, StartTime + ACCESS_TOKEN_EXPIRE_MINUTES, "good")
ValidTokens == {TokenOf(u) : u \in UserIds}
InvalidTokens == {Garbage, ForgedToken, ExpiredToken, NoSubToken}
TokenPool == ValidTokens \cup InvalidTokens

Elapsed == {0, 1}
TaskIdInputs == 0 .. (MaxTasks + 1)
TaskCreateInputs == {Payload("a", Unset, Unset, Unset, Unset)}
TaskUpdateInputs ==
    {NoPayload, Payload(Unset, Unset, "in_progress", Unset, Unset)}

InitTasks ==
    /\ now = StartTime
    /\ users = RegisteredUsers
    /\ tasks = {}
    /\ nextTaskId = 1
    /\ sessions = {}
    /\ nextSession = 1
    /\ loggedOut = {}
    /\ conversations = {}
    /\ messages = <<>>
    /\ inflight = {}
    /\ resp = NoResponse
    /\ result = NoResult

NextTasks ==
    \/ Deliver
    \/ \E d \in Elapsed, token \in ValidTokens, data \in TaskCreateInputs :
           CreateTask(d, token, data)
    \/ \E d \in Elapsed, token \in ValidTokens, limit \in {1, 50} :
           GetTasks(d, token, None, None, limit, 0)
    \/ \E d \in Elapsed, token \in ValidTokens, task_id \in TaskIdInputs :
           GetTask(d, token, task_id)
    \/ \E d \in Elapsed, token \in ValidTokens, task_id \in TaskIdInputs,
          data \in TaskUpdateInputs :
           UpdateTask(d, token, task_id, data)
    \/ \E d \in Elapsed, token \in ValidTokens, task_id \in TaskIdInputs :
           DeleteTask(d, token, task_id)
    \/ \E d \in Elapsed, token \in ValidTokens, task_id \in TaskIdInputs :
           CompleteTask(d, token, task_id)

SpecTasks == InitTasks /\ [][NextTasks]_vars

-----------------------------------------------------------------------------
(* Task creation under the bodies a client can send.                       *)

CreateInputs ==
    {Payload(title, Unset, status, priority, Unset) :
        title \in {Unset, "", "a", LongTitle},
        status \in {Unset, "completed"},
        priority \in {Unset, "high", "urgent"}}

NextCreate ==
    \/ Deliver
    \/ \E d \in Elapsed, token \in ValidTokens, data \in CreateInputs :
           CreateTask(d, token, data)
    \/ \E d \in Elapsed, token \in ValidTokens, task_id \in TaskIdInputs :
           GetTask(d, token, task_id)

SpecCreate == InitTasks /\ [][NextCreate]_vars

-----------------------------------------------------------------------------
(* Partial updates of two tasks of one user.                               *)

\* The tasks table after u1 created two tasks with title "a".
TwoTasks ==
    {create_task(TaskCreate(Payload("a", Unset, Unset, Unset, Unset)), "u1", id) :
        id \in {1, 2}}

\* Every choice of sent and unsent fields.
UpdateInputs ==
    {Payload(title, description, status, priority, due_date) :
        title \in {Unset, "b"},
        description \in {Unset, "d"},
        status \in {Unset, "pending", "completed"},
        priority \in {Unset, "high"},
        due_date \in {Unset, "d1"}}

InitUpdate ==
    /\ now = StartTime
    /\ users = RegisteredUsers
    /\ tasks = TwoTasks
    /\ nextTaskId = 3
    /\ sessions = {}
    /\ nextSession = 1
    /\ loggedOut = {}
    /\ conversations = {}
    /\ messages = <<>>
    /\ inflight = {}
    /\ resp = NoResponse
    /\ result = NoResult

NextUpdate ==
    \/ Deliver
    \/ \E d \in Elapsed, task_id \in {1, 2}, data \in UpdateInputs :
           UpdateTask(d, TokenOf("u1"), task_id, data)
    \/ \E d \in Elapsed, token \in ValidTokens, task_id \in 1 .. 3 :
           CompleteTask(d, token, task_id)

SpecUpdate == InitUpdate /\ [][NextUpdate]_vars

-----------------------------------------------------------------------------
(* Two update requests served side by side.  Each request has a database   *)
(* session of its own (Depends(get_session)): update_task first selects    *)
(* the row, then assigns the sent fields and the timestamp to the loaded   *)
(* object, then commits.  The commit flushes one UPDATE ... WHERE id = ?    *)
(* that sets the columns whose assigned value differs from the loaded one; *)
(* the row lock makes the UPDATEs of two requests take turns.              *)

RaceRequests == {1, 2}

RaceInputs ==
    {Payload(title, description, Unset, Unset, Unset) :
        title \in {Unset, "a", "b"},
        description \in {Unset, None, "d"}}

\* get_task_by_id and the assignments of update_task: the request holds the
\* row it loaded and the reading of the clock.
ReadForUpdate(r, d, token, task_id, data) ==
    LET uid == get_current_user_id(token, now + d).user_id
        loaded == get_task_by_id(tasks, task_id, uid)
    IN /\ \A x \in inflight : x.id # r
       /\ now + d <= MaxTime
       /\ now' = now + d
       /\ inflight' = inflight \cup
              {[id |-> r, task_id |-> task_id, data |-> data, loaded |-> loaded,
                t |-> now + d,
                after |-> {x.id : x \in {y \in inflight : y.pc = "done"}},
                pc |-> IF loaded = {} THEN "done" ELSE "read",
                code |-> IF loaded = {} THEN 404 ELSE 0]}
       /\ UNCHANGED <<users, tasks, nextTaskId, sessions, nextSession, loggedOut,
                      conversations, messages, resp, result>>

\* session.commit() of update_task: the UPDATE of the changed columns on the
\* row as it is stored now.
CommitUpdate(r) ==
    \E x \in inflight :
        /\ x.id = r
        /\ x.pc = "read"
        /\ LET old == CHOOSE o \in x.loaded : TRUE
               set == ApplyUpdate(old, x.data, x.t)
               stored == {c \in tasks : c.id = old.id}
               Written(c) ==
                   [c EXCEPT
                      !.title = IF set.title # old.title THEN set.title ELSE @,
                      !.description = IF set.description # old.description
                                      THEN set.description ELSE @,
                      !.due_date = IF set.due_date # old.due_date
                                   THEN set.due_date ELSE @,
                      !.status = IF x.data.status # Unset THEN set.status ELSE @,
                      !.priority = IF x.data.priority # Unset THEN set.priority
                                   ELSE @,
                      !.updated_at = IF set.updated_at # old.updated_at
                                     THEN set.updated_at ELSE @]
               new == {Written(c) : c \in stored}
               ok == stored # {} /\ \A c \in new : TaskRowAccepted(c, users)
           IN /\ tasks' = IF ok THEN (tasks \ stored) \cup new ELSE tasks
              /\ inflight' = (inflight \ {x}) \cup
                     {[x EXCEPT !.pc = "done", !.code = IF ok THEN 200 ELSE 500]}
        /\ UNCHANGED <<now, users, nextTaskId, sessions, nextSession, loggedOut,
                       conversations, messages, resp, result>>

NextRace ==
    \/ \E r \in RaceRequests, d \in Elapsed, task_id \in 1 .. 3,
          data \in RaceInputs :
           ReadForUpdate(r, d, TokenOf("u1"), task_id, data)
    \/ \E r \in RaceRequests : CommitUpdate(r)

SpecRace == InitUpdate /\ [][NextRace]_vars

-----------------------------------------------------------------------------
(* Listing: GET /tasks/ and the agent's task_list tool over a store of     *)
(* four tasks, three of u1 and one of u2.                                  *)

\* TaskListArgs, and the query string task_list_tool makes of them: limit and
\* offset always, a filter only when it is truthy.
TaskListArgs(status_filter, priority_filter, limit, offset) ==
    [status_filter |-> status_filter, priority_filter |-> priority_filter,
     limit |-> limit, offset |-> offset]

ListParams(args) ==
    [status_filter |-> IF args.status_filter \in {None, ""} THEN None
                       ELSE args.status_filter,
     priority_filter |-> IF args.priority_filter \in {None, ""} THEN None
                         ELSE args.priority_filter,
     limit |-> args.limit, offset |-> args.offset]

\* task_list_tool: the TaskListResult made of the backend's response.
task_list_tool(response) ==
    IF response.code = 200
    THEN [call |-> "task_list_tool", success |-> TRUE, tasks |-> response.body,
          total_count |-> Cardinality(response.body), error |-> None]
    ELSE [call |-> "task_list_tool", success |-> FALSE, tasks |-> {},
          total_count |-> 0,
          error |-> "Failed to list tasks: " \o response.detail]

\* The agent calls task_list_tool with the user's token: one GET /tasks/.
TaskListTool(d, token, args) ==
    LET uid == get_current_user_id(token, now + d).user_id
        params == ListParams(args)
    IN /\ resp = NoResponse
       /\ \E rows \in get_tasks_by_user(tasks, uid, params.status_filter,
                                        params.priority_filter, params.limit,
                                        params.offset) :
           LET out == Protected(token, now + d, tasks, route_get_tasks(tasks, rows))
           IN /\ TaskCall(d, "list", token, 0,
                          Payload(Unset, Unset, params.status_filter,
                                  params.priority_filter, Unset),
                          params.limit, params.offset, out)
              /\ result' = task_list_tool(out)
              /\ UNCHANGED nextTaskId

FourTasks ==
    {create_task(TaskCreate(Payload("a", Unset, Unset, Unset, Unset)), "u1", 1),
     create_task(TaskCreate(Payload("b", Unset, Unset, "high", Unset)), "u1", 2),
     create_task(TaskCreate(Payload("c", Unset, "completed", Unset, Unset)), "u1", 3),
     create_task(TaskCreate(Payload("d", Unset, Unset, Unset, Unset)), "u2", 4)}

ListInputs ==
    {TaskListArgs(status_filter, priority_filter, limit, offset) :
        status_filter \in {None, "pending"},
        priority_filter \in {None, "medium"},
        limit \in {0, 1, 2, 50},
        offset \in 0 .. 4}

InitList ==
    /\ now = StartTime
    /\ users = RegisteredUsers
    /\ tasks = FourTasks
    /\ nextTaskId = 5
    /\ sessions = {}
    /\ nextSession = 1
    /\ loggedOut = {}
    /\ conversations = {}
    /\ messages = <<>>
    /\ inflight = {}
    /\ resp = NoResponse
    /\ result = NoResult

NextList ==
    \/ Deliver
    \/ \E d \in Elapsed, token \in ValidTokens, args \in ListInputs :
           GetTasks(d, token, args.status_filter, args.priority_filter,
                    args.limit, args.offset)
    \/ \E d \in Elapsed, token \in ValidTokens, args \in ListInputs :
           TaskListTool(d, token, args)
    \/ \E d \in Elapsed, token \in ValidTokens, task_id \in 1 .. 4 :
           DeleteTask(d, token, task_id)

SpecList == InitList /\ [][NextList]_vars

\* A table in which one user has more tasks than the largest page the
\* interface describes.
PageSize == 101

PageTasks ==
    {create_task(TaskCreate(Payload("a", Unset, Unset, Unset, Unset)), "u1", i) :
        i \in 1 .. PageSize}

PageInputs ==
    {TaskListArgs(None, None, limit, 0) : limit \in {PageSize, PageSize + 1}}

InitPage ==
    /\ now = StartTime
    /\ users = RegisteredUsers
    /\ tasks = PageTasks
    /\ nextTaskId = PageSize + 1
    /\ sessions = {}
    /\ nextSession = 1
    /\ loggedOut = {}
    /\ conversations = {}
    /\ messages = <<>>
    /\ inflight = {}
    /\ resp = NoResponse
    /\ result = NoResult

NextPage ==
    \/ Deliver
    \/ \E d \in Elapsed, token \in ValidTokens, args \in PageInputs :
           GetTasks(d, token, args.status_filter, args.priority_filter,
                    args.limit, args.offset)
    \/ \E d \in Elapsed, token \in ValidTokens, task_id \in 1 .. 3 :
           DeleteTask(d, token, task_id)

SpecPage == InitPage /\ [][NextPage]_vars

-----------------------------------------------------------------------------
(* The session registry (services/session_service.py, models/session.py).  *)

\* SessionModel: created_at has the default datetime.utcnow() evaluated at
\* import.
SessionModel(id, user_id, token, expires_at) ==
    [id |-> id, user_id |-> user_id, token |-> token, expires_at |-> expires_at,
     created_at |-> ImportTime]

\* .first() of a statement with no ORDER BY: None, or any one of the rows.
First(rows) == IF rows = {} THEN {{}} ELSE {{r} : r \in rows}

\* Mutant of ValidSessions: the expiry condition admits expires_at = now.
Mutant_ValidSessions(S, t) == {x \in S : x.expires_at >= t}

\* Mutant of get_session_by_token: the lookup does not look at the expiry.
Mutant_get_session_by_token(S, token, t) ==
    First({x \in S : x.token = token})

\* The condition SessionModel.expires_at > datetime.utcnow() of the lookups.
ValidSessions(S, t) == {x \in S : x.expires_at > t}

get_session_by_token(S, token, t) ==
    First({x \in ValidSessions(S, t) : x.token = token})

get_session_by_user_id(S, user_id, t) ==
    First({x \in ValidSessions(S, t) : x.user_id = user_id})

\* The value a session call returned.
SessionResult(call, token, user_id, rows, ok) ==
    [call |-> call, token |-> token, user_id |-> user_id, rows |-> rows, ok |-> ok]

\* One call of a SessionService method; the method reads the clock at
\* now + d.
SessionCall(d, ret, store) ==
    /\ resp = NoResponse
    /\ result.call = "none"
    /\ now + d <= StartTime + MaxHalfLives * (SessionLifetime \div 2)
    /\ now' = now + d
    /\ sessions' = store
    /\ result' = ret
    /\ UNCHANGED <<users, tasks, nextTaskId, loggedOut, conversations, messages,
                   inflight, resp>>

\* create_session: a fresh random token, expiry 30 days from now.
CreateSession(d, user_id) ==
    /\ nextSession <= MaxSessions
    /\ LET session == SessionModel(nextSession, user_id, nextSession,
                                   now + d + SessionLifetime)
       IN SessionCall(d, SessionResult("create_session", nextSession, user_id,
                                       {session}, TRUE),
                      sessions \cup {session})
    /\ nextSession' = nextSession + 1

GetSessionByToken(d, token) ==
    /\ \E session \in get_session_by_token(sessions, token, now + d) :
           SessionCall(d, SessionResult("get_session_by_token", token, None,
                                        session, session # {}),
                       sessions)
    /\ UNCHANGED nextSession

GetSessionByUserId(d, user_id) ==
    /\ \E session \in get_session_by_user_id(sessions, user_id, now + d) :
           SessionCall(d, SessionResult("get_session_by_user_id", 0, user_id,
                                        session, session # {}),
                       sessions)
    /\ UNCHANGED nextSession

\* invalidate_session: deletes the session the lookup by token returned.
InvalidateSession(d, token) ==
    /\ \E session \in get_session_by_token(sessions, token, now + d) :
           SessionCall(d, SessionResult("invalidate_session", token, None,
                                        session, session # {}),
                       sessions \ session)
    /\ UNCHANGED nextSession

\* Mutant of InvalidateAllSessionsForUser: only the rows that have not
\* expired are deleted.
Mutant_InvalidateAllSessionsForUser(d, user_id) ==
    /\ LET rows == {x \in ValidSessions(sessions, now + d) : x.user_id = user_id}
       IN SessionCall(d, SessionResult("invalidate_all_sessions_for_user", 0,
                                       user_id, rows, rows # {}),
                      sessions \ rows)
    /\ UNCHANGED nextSession

\* invalidate_all_sessions_for_user: deletes every row of the user.
InvalidateAllSessionsForUser(d, user_id) ==
    /\ LET rows == {x \in sessions : x.user_id = user_id}
       IN SessionCall(d, SessionResult("invalidate_all_sessions_for_user", 0,
                                       user_id, rows, rows # {}),
                      sessions \ rows)
    /\ UNCHANGED nextSession

\* Mutant of RefreshSession: the expiry is extended from the stored expiry.
Mutant_RefreshSession(d, token) ==
    /\ \E session \in get_session_by_token(sessions, token, now + d) :
           LET refreshed == {[x EXCEPT !.expires_at = x.expires_at + SessionLifetime] :
                                x \in session}
           IN SessionCall(d, SessionResult("refresh_session", token, None,
                                           refreshed, refreshed # {}),
                          (sessions \ session) \cup refreshed)
    /\ UNCHANGED nextSession

\* refresh_session: the session the lookup by token returned gets the expiry
\* 30 days from now.
RefreshSession(d, token) ==
    /\ \E session \in get_session_by_token(sessions, token, now + d) :
           LET refreshed == {[x EXCEPT !.expires_at = now + d + SessionLifetime] :
                                x \in session}
           IN SessionCall(d, SessionResult("refresh_session", token, None,
                                           refreshed, refreshed # {}),
                          (sessions \ session) \cup refreshed)
    /\ UNCHANGED nextSession

SessionElapsed == {0, SessionLifetime \div 2}
SessionTokens == 1 .. MaxSessions

NextSessions ==
    \/ Deliver
    \/ \E d \in SessionElapsed, user_id \in UserIds : CreateSession(d, user_id)
    \/ \E d \in SessionElapsed, token \in SessionTokens : GetSessionByToken(d, token)
    \/ \E d \in SessionElapsed, user_id \in UserIds : GetSessionByUserId(d, user_id)
    \/ \E d \in SessionElapsed, token \in SessionTokens : InvalidateSession(d, token)
    \/ \E d \in SessionElapsed, user_id \in UserIds :
           InvalidateAllSessionsForUser(d, user_id)
    \/ \E d \in SessionElapsed, token \in SessionTokens : RefreshSession(d, token)

SpecSessions == InitTasks /\ [][NextSessions]_vars

-----------------------------------------------------------------------------
(* Login, logout and profile (api/auth.py, services/auth_service.py,       *)
(* repositories/user_repository.py).                                       *)

get_user_by_id(U, user_id) == {u \in U : u.id = user_id}
get_user_by_email(U, email) == {u \in U : u.email = email}

\* authenticate_user: the user of the email if the password verifies.
authenticate_user(U, email, password) ==
    {u \in get_user_by_email(U, email) : verify_password(password, u.hashed_password)}

\* login_user: a 30-minute access token for the authenticated user; no
\* session record is made.
login_user(U, email, password, t) ==
    {[access_token |-> create_access_token(u.id, ACCESS_TOKEN_EXPIRE_MINUTES, t),
      token_type |-> "bearer"] : u \in authenticate_user(U, email, password)}

\* logout_user: returns True, whatever the user and the token.
logout_user(user_id) == TRUE

\* The response of an auth route.
AuthResponse(code, detail, body, db) ==
    [code |-> code, detail |-> detail, body |-> body, db |-> db]

\* Mutant of route_login: an email without a user is answered on its own.
Mutant_route_login(U, email, password, t) ==
    LET token_data == login_user(U, email, password, t) IN
    IF get_user_by_email(U, email) = {}
    THEN AuthResponse(404, "User not found", {}, TRUE)
    ELSE IF token_data = {}
    THEN AuthResponse(401, "Incorrect email or password", {}, TRUE)
    ELSE AuthResponse(200, "", token_data, TRUE)

\* POST /auth/login
route_login(U, email, password, t) ==
    LET token_data == login_user(U, email, password, t) IN
    IF token_data = {}
    THEN AuthResponse(401, "Incorrect email or password", {}, TRUE)
    ELSE AuthResponse(200, "", token_data, TRUE)

\* POST /auth/logout
route_logout(current_user_id) ==
    IF ~logout_user(current_user_id)
    THEN AuthResponse(400, "Logout failed", {}, FALSE)
    ELSE AuthResponse(200, "Successfully logged out", {}, FALSE)

\* GET /auth/profile
route_get_profile(U, current_user_id) ==
    LET user == get_user_by_id(U, current_user_id) IN
    IF user = {} THEN AuthResponse(404, "User not found", {}, TRUE)
    ELSE AuthResponse(200, "",
                      {[id |-> u.id, email |-> u.email, username |-> u.username] :
                          u \in user}, TRUE)

\* One HTTP exchange with the auth API.  lo is the new value of the history
\* of logged-out tokens.
AuthRequest(d, op, token, out, lo) ==
    /\ resp = NoResponse
    /\ now + d <= MaxTime
    /\ now' = now + d
    /\ resp' = Record(op, token, 0, NoPayload, 0, 0, out)
    /\ loggedOut' = lo
    /\ UNCHANGED <<users, tasks, nextTaskId, sessions, nextSession, conversations,
                   inflight, messages, result>>

\* Login carries no bearer token.  A token that login issues is a new token:
\* it leaves the history of logged-out tokens.
Login(d, email, password) ==
    LET out == route_login(users, email, password, now + d) IN
    AuthRequest(d, "login", Garbage, out,
                loggedOut \ {x.access_token : x \in out.body})

Logout(d, token) ==
    LET uid == get_current_user_id(token, now + d).user_id
        out == Protected(token, now + d, tasks, route_logout(uid))
    IN AuthRequest(d, "logout", token, out,
                   IF out.code = 200 THEN loggedOut \cup {token} ELSE loggedOut)

GetProfile(d, token) ==
    LET uid == get_current_user_id(token, now + d).user_id IN
    AuthRequest(d, "profile", token,
                Protected(token, now + d, tasks, route_get_profile(users, uid)),
                loggedOut)

\* The tokens login can have issued up to clock reading t.
IssuedTokens(t) ==
    {create_access_token(u, ACCESS_TOKEN_EXPIRE_MINUTES, i) :
        u \in UserIds, i \in StartTime .. t}

\* The bearer tokens clients present at clock reading t.
Bearers(t) == TokenPool \cup IssuedTokens(t)

Credentials == {<<"e1", "p1">>, <<"e2", "p2">>, <<"e1", "p2">>, <<"e3", "p1">>}

NextAuth ==
    \/ Deliver
    \/ \E d \in Elapsed, c \in Credentials : Login(d, c[1], c[2])
    \/ \E d \in Elapsed, token \in Bearers(now) : Logout(d, token)
    \/ \E d \in Elapsed, token \in Bearers(now) : GetProfile(d, token)
    \/ \E d \in Elapsed, token \in Bearers(now), data \in TaskCreateInputs :
           CreateTask(d, token, data)
    \/ \E d \in Elapsed, token \in Bearers(now) :
           GetTasks(d, token, None, None, 50, 0)
    \/ \E d \in Elapsed, token \in Bearers(now), task_id \in TaskIdInputs :
           GetTask(d, token, task_id)
    \/ \E d \in Elapsed, token \in Bearers(now), task_id \in TaskIdInputs,
          data \in TaskUpdateInputs :
           UpdateTask(d, token, task_id, data)
    \/ \E d \in Elapsed, token \in Bearers(now), task_id \in TaskIdInputs :
           DeleteTask(d, token, task_id)
    \/ \E d \in Elapsed, token \in Bearers(now), task_id \in TaskIdInputs :
           CompleteTask(d, token, task_id)

\* The server after all but one of the task ids were drawn by tasks that
\* have since been deleted.
InitAuth ==
    /\ now = StartTime
    /\ users = RegisteredUsers
    /\ tasks = {}
    /\ nextTaskId = MaxTasks
    /\ sessions = {}
    /\ nextSession = 1
    /\ loggedOut = {}
    /\ conversations = {}
    /\ messages = <<>>
    /\ inflight = {}
    /\ resp = NoResponse
    /\ result = NoResult

SpecAuth == InitAuth /\ [][NextAuth]_vars

\* One task of u1 that is created, updated and completed, with empty titles
\* and explicit nulls among the requests.
StoredCreateInputs ==
    {Payload(title, Unset, Unset, Unset, Unset) : title \in {"", "a"}}

StoredUpdateInputs ==
    {Payload(title, Unset, status, priority, Unset) :
        title \in {Unset, None, "", "b"},
        status \in {Unset, None, "in_progress"},
        priority \in {Unset, None, "low"}}

NextStored ==
    \/ Deliver
    \/ \E d \in Elapsed, data \in StoredCreateInputs :
           CreateTask(d, TokenOf("u1"), data)
    \/ \E d \in Elapsed, data \in StoredUpdateInputs :
           UpdateTask(d, TokenOf("u1"), MaxTasks, data)
    \/ \E d \in Elapsed : CompleteTask(d, TokenOf("u1"), MaxTasks)

SpecStored == InitAuth /\ [][NextStored]_vars

-----------------------------------------------------------------------------
(* Registration (api/auth.py, services/auth_service.py).                   *)

get_user_by_username(U, username) == {u \in U : u.username = username}

\* The JSON body of POST /auth/register.
UserCreate(email, username, password) ==
    [email |-> email, username |-> username, password |-> password]

\* schemas.UserCreate: three required strings.
UserCreateAccepts(data) ==
    /\ data.email \notin {Unset, None}
    /\ data.username \notin {Unset, None}
    /\ data.password \notin {Unset, None}

\* uuid.uuid4 of a new user: an id no user has.  Users are numbered in the
\* order of their creation; no route deletes one.
NewUserId(U) == "u" \o ToString(Cardinality(U) + 1)

\* create_user: the row that is added.
create_user(U, email, username, hashed_password) ==
    User(NewUserId(U), email, username, hashed_password)

\* Mutant of register_user: only the email is looked up.
Mutant_register_user(U, email, username, password) ==
    IF get_user_by_email(U, email) # {} THEN {}
    ELSE {create_user(U, email, username, get_password_hash(password))}

\* register_user: None when the email or the username is taken, otherwise
\* the created user.
register_user(U, email, username, password) ==
    IF get_user_by_email(U, email) # {} THEN {}
    ELSE IF get_user_by_username(U, username) # {} THEN {}
    ELSE {create_user(U, email, username, get_password_hash(password))}

UserExists == "User with this email or username already exists"

\* POST /auth/register: the response and the users table afterwards.
route_register(U, data) ==
    IF ~UserCreateAccepts(data)
    THEN [code |-> 422, detail |-> "validation error", body |-> {}, db |-> FALSE,
          users |-> U]
    ELSE LET created == register_user(U, data.email, data.username, data.password)
         IN IF created = {}
            THEN [code |-> 400, detail |-> UserExists, body |-> {}, db |-> TRUE,
                  users |-> U]
            ELSE [code |-> 201, detail |-> "",
                  body |-> {[id |-> u.id, email |-> u.email,
                             username |-> u.username] : u \in created},
                  db |-> TRUE, users |-> U \cup created]

\* Register carries no bearer token.
Register(d, data) ==
    /\ resp = NoResponse
    /\ Cardinality(users) < MaxUsers
    /\ now + d <= MaxTime
    /\ now' = now + d
    /\ LET out == route_register(users, data)
       IN /\ resp' = Record("register", Garbage, 0, data, 0, 0, out)
          /\ users' = out.users
    /\ UNCHANGED <<tasks, nextTaskId, sessions, nextSession, loggedOut,
                   inflight, conversations, messages, result>>

RegisterInputs ==
    {UserCreate(email, username, password) :
        email \in {"e1", "e3", "e4"},
        username \in {"n2", "n3", "n4"},
        password \in {"p1", "p3", Unset}}

LoginInputs == {<<"e1", "p1">>, <<"e3", "p3">>, <<"e3", "p1">>, <<"e4", "p1">>}

NextRegister ==
    \/ Deliver
    \/ \E d \in Elapsed, data \in RegisterInputs : Register(d, data)
    \/ \E d \in Elapsed, c \in LoginInputs : Login(d, c[1], c[2])

SpecRegister == InitTasks /\ [][NextRegister]_vars

-----------------------------------------------------------------------------
(* Registrations and profile updates served side by side.  Each request    *)
(* runs its existence checks in a database session of its own and writes   *)
(* at its commit; the columns email and username of table "users" are      *)
(* declared unique, so the database refuses the write of a second row with *)
(* the same email or username (IntegrityError, an unhandled exception).    *)

\* Mutant of UniqueViolation: the columns are not declared unique.
Mutant_UniqueViolation(U, row) == FALSE

\* Field(unique=True) of email and username: the row cannot be written next
\* to the rows U.
UniqueViolation(U, row) ==
    \E u \in U : u.email = row.email \/ u.username = row.username

\* The request r has not been taken yet.
NotTaken(r) == \A x \in inflight : x.id # r

\* register_user up to the insert: the two lookups.
CheckRegister(r, data) ==
    LET free == /\ get_user_by_email(users, data.email) = {}
                /\ get_user_by_username(users, data.username) = {}
    IN /\ NotTaken(r)
       /\ inflight' = inflight \cup
              {[id |-> r, op |-> "register", user_id |-> None, data |-> data,
                set |-> {},
                pc |-> IF UserCreateAccepts(data) /\ free THEN "checked" ELSE "done",
                code |-> IF ~UserCreateAccepts(data) THEN 422
                         ELSE IF free THEN 0 ELSE 400]}
       /\ UNCHANGED <<now, users, tasks, nextTaskId, sessions, nextSession,
                      loggedOut, conversations, messages, resp, result>>

\* create_user: the insert and its commit.
InsertUser(r) ==
    \E x \in inflight :
        /\ x.id = r /\ x.op = "register" /\ x.pc = "checked"
        /\ Cardinality(users) < MaxUsers
        /\ LET row == create_user(users, x.data.email, x.data.username,
                                  get_password_hash(x.data.password))
               ok == ~UniqueViolation(users, row)
           IN /\ users' = IF ok THEN users \cup {row} ELSE users
              /\ inflight' = (inflight \ {x}) \cup
                     {[x EXCEPT !.pc = "done", !.code = IF ok THEN 201 ELSE 500,
                                !.user_id = IF ok THEN row.id ELSE None]}
        /\ UNCHANGED <<now, tasks, nextTaskId, sessions, nextSession, loggedOut,
                       conversations, messages, resp, result>>

\* PUT /auth/profile up to update_user: the lookups of the new email and
\* the new username, and the fields that are going to be set.
CheckProfile(r, token, data) ==
    LET auth == get_current_user_id(token, now)
        current_user == get_user_by_id(users, auth.user_id)
        Changes(field) ==
            \E u \in current_user : data[field] # "" /\ data[field] # u[field]
        Taken(field, lookup) ==
            \E u \in current_user :
                /\ Changes(field)
                /\ \E other \in lookup : other.id # u.id
        by_email == get_user_by_email(users, data.email)
        by_username == get_user_by_username(users, data.username)
        code == IF ~UserCreateAccepts(data) THEN 422
                ELSE IF ~auth.ok THEN auth.err.code
                ELSE IF current_user = {} THEN 404
                ELSE IF Taken("email", by_email) THEN 400
                ELSE IF Taken("username", by_username) THEN 400
                ELSE 0
    IN /\ NotTaken(r)
       /\ inflight' = inflight \cup
              {[id |-> r, op |-> "profile", user_id |-> auth.user_id, data |-> data,
                set |-> IF code # 0 THEN {}
                        ELSE {f \in {"email", "username"} : Changes(f)},
                pc |-> IF code = 0 THEN "checked" ELSE "done",
                code |-> code]}
       /\ UNCHANGED <<now, users, tasks, nextTaskId, sessions, nextSession,
                      loggedOut, conversations, messages, resp, result>>

\* update_user: the row of the user gets the fields and is committed.
CommitProfile(r) ==
    \E x \in inflight :
        /\ x.id = r /\ x.op = "profile" /\ x.pc = "checked"
        /\ LET stored == get_user_by_id(users, x.user_id)
               new == {[u EXCEPT
                          !.email = IF "email" \in x.set THEN x.data.email ELSE @,
                          !.username = IF "username" \in x.set THEN x.data.username
                                       ELSE @] : u \in stored}
               ok == /\ stored # {}
                     /\ \A u \in new : ~UniqueViolation(users \ stored, u)
           IN /\ users' = IF ok THEN (users \ stored) \cup new ELSE users
              /\ inflight' = (inflight \ {x}) \cup
                     {[x EXCEPT !.pc = "done",
                                !.code = IF stored = {} THEN 400
                                         ELSE IF ok THEN 200 ELSE 500]}
        /\ UNCHANGED <<now, tasks, nextTaskId, sessions, nextSession, loggedOut,
                       conversations, messages, resp, result>>

SignupRequests == 1 .. 3

SignupInputs ==
    {UserCreate(email, username, "p3") :
        email \in {"e1", "e3"}, username \in {"n3", "n4"}}

NextSignupRace ==
    \/ \E r \in SignupRequests, data \in SignupInputs : CheckRegister(r, data)
    \/ \E r \in SignupRequests : InsertUser(r)
    \/ \E r \in SignupRequests, token \in ValidTokens, data \in SignupInputs :
           CheckProfile(r, token, data)
    \/ \E r \in SignupRequests : CommitProfile(r)

SpecSignupRace == InitTasks /\ [][NextSignupRace]_vars

-----------------------------------------------------------------------------
(* Chat: conversations and messages (models/conversation.py,               *)
(* repositories/conversation_repository.py,                                *)
(* services/conversation_service.py, api/chat.py).                         *)

MaxConversations == 2
MaxMessages == 4

\* Conversation(...): both timestamps default to the value datetime.utcnow()
\* had when the class was defined.
Conversation(id, user_id, title) ==
    [id |-> id, user_id |-> user_id, title |-> title,
     created_at |-> ImportTime, updated_at |-> ImportTime, is_active |-> TRUE]

\* Message(...): created_at defaults to the value datetime.utcnow() had when
\* the class was defined; no caller passes another one.
Message(id, conversation_id, sender_type, content) ==
    [id |-> id, conversation_id |-> conversation_id,
     sender_type |-> sender_type, content |-> content,
     created_at |-> ImportTime]

\* create_conversation: a fresh id, the title made of the minute of creation.
create_conversation(C, user_id, t) ==
    Conversation(Cardinality(C) + 1, user_id, <<"Conversation", t>>)

\* The rows the query of get_conversation_by_id yields (none or one).
get_conversation_by_id(C, conversation_id) ==
    {c \in C : c.id = conversation_id}

\* update_conversation without title or is_active: only updated_at is set.
update_conversation(C, conversation_id, t) ==
    {IF c.id = conversation_id THEN [c EXCEPT !.updated_at = t] ELSE c : c \in C}

\* create_message: the row is appended to the table and committed.
create_message(M, conversation_id, sender_type, content) ==
    Append(M, Message(Len(M) + 1, conversation_id, sender_type, content))

\* The rows of one conversation, in the order they were inserted.
MessagesOf(M, conversation_id) ==
    SelectSeq(M, LAMBDA m : m.conversation_id = conversation_id)

Range(s) == {s[i] : i \in DOMAIN s}

\* get_messages_for_conversation: ORDER BY created_at ASC fixes the order of
\* two rows only when their created_at differ; every listing the database may
\* return is a member of this set.
get_messages_for_conversation(M, conversation_id) ==
    LET rows == Range(MessagesOf(M, conversation_id))
        n == Cardinality(rows)
    IN {l \in [1 .. n -> rows] :
           /\ \A i, j \in 1 .. n : i < j => l[i] # l[j]
           /\ \A i, j \in 1 .. n : i < j => l[i].created_at <= l[j].created_at}

\* user_message.lower() on the messages sent here.
Lower(user_message) == IF user_message = "Hello" THEN "hello" ELSE user_message

\* The words of _generate_ai_response that occur in the lowercase message
\* ("word in lower_msg" is a substring test).
KeywordsIn(lower_msg) ==
    CASE lower_msg = "hello" -> {"hello"}
      [] lower_msg = "mark task 1 as done" -> {"task", "done"}
      [] lower_msg = "thanks" -> {"thank", "thanks"}
      [] OTHER -> {}

AnyWordIn(words, lower_msg) == words \cap KeywordsIn(lower_msg) # {}

GreetingReply ==
    "Hello! I'm your AI assistant. How can I help you manage your tasks today?"
CompleteReply ==
    "I can help you mark tasks as complete. Could you tell me which task you've finished?"

ThanksReply == "You're welcome! Is there anything else I can help you with?"
EchoReply(user_message) ==
    "I understand you said: '" \o user_message
    \o "'. How can I help you with your tasks?"

\* _generate_ai_response: the reply is a text chosen by the first group of
\* words the message contains.
generate_ai_response(user_message) ==
    LET lower_msg == Lower(user_message) IN
    IF AnyWordIn({"hello", "hi", "hey", "greetings"}, lower_msg)
    THEN GreetingReply
    ELSE IF AnyWordIn({"add", "create", "new", "make"}, lower_msg)
    THEN IF AnyWordIn({"task", "todo", "item"}, lower_msg)
         THEN "I can help you create a task. Please tell me the task title and any details you'd like to include."
         ELSE "What would you like to add? I can help with tasks and reminders."
    ELSE IF AnyWordIn({"list", "show", "see", "view"}, lower_msg)
    THEN IF AnyWordIn({"task", "tasks", "todo"}, lower_msg)
         THEN "I can show your tasks. Would you like to see all tasks, completed tasks, or pending tasks?"
         ELSE "What would you like to see? I can help retrieve your tasks."
    ELSE IF AnyWordIn({"complete", "done", "finish", "finished"}, lower_msg)
    THEN CompleteReply
    ELSE IF AnyWordIn({"help", "support", "assist"}, lower_msg)
    THEN "I'm here to help you manage your tasks! You can ask me to create, list, update, or complete tasks."
    ELSE IF AnyWordIn({"thank", "thanks", "appreciate"}, lower_msg)
    THEN ThanksReply
    ELSE EchoReply(user_message)

\* What the response shows of a stored message.
MessageView(m) == [id |-> m.id, content |-> m.content, timestamp |-> m.created_at]

Mutant_process_user_message(C, M, conversation_id, message_content, t) ==
    LET M1 == create_message(M, conversation_id, "ai_assistant",
                             generate_ai_response(message_content))
        M2 == create_message(M1, conversation_id, "user", message_content)
    IN [user_message |-> MessageView(M2[Len(M2)]),
        ai_response |-> MessageView(M1[Len(M1)]),
        conversations |-> update_conversation(C, conversation_id, t),
        messages |-> M2]

\* process_user_message: the user's message, then the reply, then the
\* conversation's updated_at; each of the three is committed on its own.
process_user_message(C, M, conversation_id, message_content, t) ==
    LET M1 == create_message(M, conversation_id, "user", message_content)
        ai_response_content == generate_ai_response(message_content)
        M2 == create_message(M1, conversation_id, "ai_assistant",
                             ai_response_content)
    IN [user_message |-> MessageView(M1[Len(M1)]),
        ai_response |-> MessageView(M2[Len(M2)]),
        conversations |-> update_conversation(C, conversation_id, t),
        messages |-> M2]

\* The response of a chat route and the two tables afterwards.
ChatResponse(code, detail, body, db, C, M) ==
    [code |-> code, detail |-> detail, body |-> body, db |-> db,
     conversations |-> C, messages |-> M]

ConversationNotFound == "Conversation not found or access denied"

\* The access check both message routes make before anything else.
Mutant_HasAccess(C, conversation_id, current_user_id) ==
    get_conversation_by_id(C, conversation_id) # {}
HasAccess(C, conversation_id, current_user_id) ==
    \E c \in get_conversation_by_id(C, conversation_id) :
        c.user_id = current_user_id

\* POST /chat/conversations
route_create_conversation(C, M, current_user_id, t) ==
    LET conversation == create_conversation(C, current_user_id, t) IN
    ChatResponse(200, "", {conversation}, TRUE, C \cup {conversation}, M)

\* POST /chat/conversations/{conversation_id}/messages
route_send_message(C, M, conversation_id, message_content, current_user_id, t) ==
    IF ~IsUUID(conversation_id)
    THEN ChatResponse(400, "Invalid conversation ID format", {}, FALSE, C, M)
    ELSE IF ~HasAccess(C, conversation_id, current_user_id)
    THEN ChatResponse(404, ConversationNotFound, {}, TRUE, C, M)
    ELSE LET r == process_user_message(C, M, conversation_id,
                                       message_content, t)
         IN ChatResponse(200, "",
                         {[user_message |-> r.user_message,
                           ai_response |-> r.ai_response]},
                         TRUE, r.conversations, r.messages)

\* GET /chat/conversations/{conversation_id}/messages, with the listing the
\* database returned.
route_get_conversation_messages(C, M, conversation_id, current_user_id, listing) ==
    IF ~IsUUID(conversation_id)
    THEN ChatResponse(400, "Invalid conversation ID format", {}, FALSE, C, M)
    ELSE IF ~HasAccess(C, conversation_id, current_user_id)
    THEN ChatResponse(404, ConversationNotFound, {}, TRUE, C, M)
    ELSE ChatResponse(200, "", {[messages |-> listing]}, TRUE, C, M)

\* Depends(require_authentication) in front of a chat route.
ChatProtected(token, t, out) ==
    LET auth == get_current_user_id(token, t) IN
    IF auth.ok THEN out
    ELSE ChatResponse(auth.err.code, auth.err.detail, {}, FALSE,
                      conversations, messages)

MessageContent(message_content) == [content |-> message_content]

Mutant_ChatRequest(d, op, token, conversation_id, message_content, out) ==
    /\ now + d <= MaxTime
    /\ now' = now + d
    /\ resp' = Record(op, token, conversation_id,
                      MessageContent(message_content), 0, 0, out)
    /\ conversations' = out.conversations
    /\ messages' = out.messages
    /\ tasks' = IF op = "send_message"
                THEN {[x EXCEPT !.status = "completed"] : x \in tasks}
                ELSE tasks
    /\ UNCHANGED <<users, nextTaskId, sessions, nextSession, loggedOut, inflight,
                   result>>

\* One HTTP exchange with the chat API: no handler of api/chat.py reads or
\* writes the tasks table.
ChatRequest(d, op, token, conversation_id, message_content, out) ==
    /\ now + d <= MaxTime
    /\ now' = now + d
    /\ resp' = Record(op, token, conversation_id,
                      MessageContent(message_content), 0, 0, out)
    /\ conversations' = out.conversations
    /\ messages' = out.messages
    /\ UNCHANGED <<users, tasks, nextTaskId, sessions, nextSession, loggedOut,
                   inflight, result>>

CreateConversation(d, token) ==
    LET uid == get_current_user_id(token, now + d).user_id IN
    /\ resp = NoResponse
    /\ Cardinality(conversations) < MaxConversations
    /\ ChatRequest(d, "create_conversation", token, 0, "",
                   ChatProtected(token, now + d,
                       route_create_conversation(conversations, messages, uid,
                                                 now + d)))

SendMessage(d, token, conversation_id, message_content) ==
    LET uid == get_current_user_id(token, now + d).user_id IN
    /\ resp = NoResponse
    /\ Len(messages) + 2 <= MaxMessages
    /\ ChatRequest(d, "send_message", token, conversation_id, message_content,
                   ChatProtected(token, now + d,
                       route_send_message(conversations, messages,
                                          conversation_id, message_content,
                                          uid, now + d)))

GetConversationMessages(d, token, conversation_id) ==
    LET uid == get_current_user_id(token, now + d).user_id IN
    /\ resp = NoResponse
    /\ \E listing \in get_messages_for_conversation(messages, conversation_id) :
          ChatRequest(d, "get_messages", token, conversation_id, "",
                      ChatProtected(token, now + d,
                          route_get_conversation_messages(
                              conversations, messages, conversation_id, uid,
                              listing)))

ChatInputs == {"Hello", "mark task 1 as done", "thanks", "xyz"}
ChatTokens == ValidTokens \cup {ExpiredToken}
ConversationIds == 0 .. (MaxConversations + 1)

\* u1 owns the pending task 1 and the completed task 2, and is the one who
\* opens conversations; u2 is the other user.
ChatTasks ==
    {create_task(TaskCreate(Payload("a", Unset, Unset, Unset, Unset)), "u1", 1),
     create_task(TaskCreate(Payload("a", Unset, "completed", Unset, Unset)),
                 "u1", 2)}

InitChat ==
    /\ now = StartTime
    /\ users = RegisteredUsers
    /\ tasks = ChatTasks
    /\ nextTaskId = 3
    /\ sessions = {}
    /\ nextSession = 1
    /\ loggedOut = {}
    /\ conversations = {}
    /\ messages = <<>>
    /\ inflight = {}
    /\ resp = NoResponse
    /\ result = NoResult

NextChat ==
    \/ Deliver
    \/ \E d \in Elapsed, token \in {TokenOf("u1"), ExpiredToken} :
          CreateConversation(d, token)
    \/ \E d \in Elapsed, token \in ChatTokens, c \in ConversationIds,
          m \in ChatInputs : SendMessage(d, token, c, m)
    \/ \E d \in Elapsed, token \in ChatTokens, c \in ConversationIds :
          GetConversationMessages(d, token, c)

SpecChat == InitChat /\ [][NextChat]_vars

-----------------------------------------------------------------------------
(* The agent: the five tool functions (agent/src/tools), the dispatch of   *)
(* TodoAgent.process_request, AgentOrchestrator.execute_tool and the MCP   *)
(* server's call_tool.                                                     *)

\* task_id values of a tool call besides the ids of the task API: the empty
\* string, and the key left out of the arguments.
EmptyTaskId == 0 - 1
MissingTaskId == 0 - 2

\* The arguments of a function call; Unset marks a key that is absent.
ToolArgs(task_id, title, status, priority) ==
    [task_id |-> task_id, title |-> title, status |-> status,
     priority |-> priority]

\* TaskCreateArgs(**function_args) etc.: pydantic raises when a required key
\* is absent.
ArgsAccepted(function_name, function_args) ==
    CASE function_name = "task_create" -> function_args.title # Unset
      [] function_name = "task_list" -> TRUE
      [] OTHER -> function_args.task_id # MissingTaskId

\* The error a tool function returns before it sends anything (None: it goes
\* on to the request).
ToolPrecheck(function_name, args) ==
    IF function_name \in {"task_update", "task_delete", "task_complete"}
       /\ args.task_id = EmptyTaskId
    THEN "task_id is required"
    ELSE IF function_name = "task_update"
            /\ args.title = Unset /\ args.status = Unset
            /\ args.priority = Unset
    THEN "No fields provided to update"
    ELSE None

\* The JSON body the tool function sends.
ToolPayload(function_name, args) ==
    CASE function_name = "task_create" ->
             Payload(args.title, None, Unset,
                     IF args.priority = Unset THEN "medium" ELSE args.priority,
                     Unset)
      [] function_name = "task_update" ->
             Payload(args.title, Unset, args.status, args.priority, Unset)
      [] OTHER -> NoPayload

\* The backend's handling of the request of a tool function.
ToolRoute(function_name, T, U, args, payload, user_id, t, id, rows) ==
    CASE function_name = "task_create" ->
             route_create_task(T, U, payload, user_id, id)
      [] function_name = "task_list" -> route_get_tasks(T, rows)
      [] function_name = "task_update" ->
             route_update_task(T, U, args.task_id, payload, user_id, t)
      [] function_name = "task_delete" ->
             route_delete_task(T, args.task_id, user_id)
      [] OTHER -> route_complete_task(T, args.task_id, user_id, t)

\* The result model every tool function returns.
ToolResult(success, data, error) ==
    [success |-> success, data |-> data, error |-> error]

\* The tool function's reading of the backend's response: the success status
\* is 201 for create and 200 otherwise; the body of a 500 is no JSON, so
\* response.json() raises and the generic handler answers.
ToolReading(function_name, out) ==
    LET prefix == CASE function_name = "task_create" -> "Failed to create task: "
                    [] function_name = "task_list" -> "Failed to list tasks: "
                    [] function_name = "task_update" -> "Failed to update task: "
                    [] function_name = "task_delete" -> "Failed to delete task: "
                    [] OTHER -> "Failed to complete task: "
    IN IF out.code = (IF function_name = "task_create" THEN 201 ELSE 200)
       THEN ToolResult(TRUE, out.body, None)
       ELSE IF out.code = 500
       THEN ToolResult(FALSE, {}, "Unexpected error")
       ELSE ToolResult(FALSE, {}, prefix \o out.detail)

\* One call of a tool function.  net is what became of the HTTP exchange:
\* "ok", "unreachable" (httpx.RequestError before the backend saw the
\* request) or "timeout" (httpx.RequestError after the backend handled it).
\* Yields the result, the exchange with the backend (NoResponse when there
\* was none) and the tasks table afterwards.
ToolCall(function_name, args, user_token, T, U, t, id, rows, net) ==
    LET pre == ToolPrecheck(function_name, args)
        payload == ToolPayload(function_name, args)
        uid == get_current_user_id(user_token, t).user_id
        out == Protected(user_token, t, T,
                         ToolRoute(function_name, T, U, args, payload, uid, t,
                                   id, rows))
        op == CASE function_name = "task_create" -> "create"
                [] function_name = "task_list" -> "list"
                [] function_name = "task_update" -> "update"
                [] function_name = "task_delete" -> "delete"
                [] OTHER -> "complete"
    IN IF pre # None
       THEN [ret |-> ToolResult(FALSE, {}, pre), exchange |-> NoResponse,
             store |-> T]
       ELSE IF net = "unreachable"
       THEN [ret |-> ToolResult(FALSE, {}, "Network error"),
             exchange |-> NoResponse, store |-> T]
       ELSE [ret |-> IF net = "timeout"
                     THEN ToolResult(FALSE, {}, "Network error")
                     ELSE ToolReading(function_name, out),
             exchange |-> Record(op, user_token,
                                 args.task_id, payload, 0, 0, out),
             store |-> out.store]

ToolNames ==
    {"task_create", "task_list", "task_update", "task_delete", "task_complete"}

\* What the language model answered: a function call (name and arguments,
\* which eval() may fail to read), a text, or an API error.
Completion(finish_reason, name, arguments) ==
    [finish_reason |-> finish_reason, name |-> name, arguments |-> arguments]

\* Arguments that eval() cannot read (JSON true, false or null in them).
Unreadable == [unreadable |-> TRUE]

\* TodoAgent.process_request after the completion arrived.
process_request(completion, user_token, T, U, t, id, rows, net) ==
    LET none == [exchange |-> NoResponse, store |-> T] IN
    IF completion.finish_reason = "api_error"
    THEN [ret |-> [success |-> FALSE, error |-> "OpenAI API error"]] @@ none
    ELSE IF completion.finish_reason # "function_call"
    THEN [ret |-> [success |-> TRUE, result |-> "message"]] @@ none
    ELSE IF completion.arguments = Unreadable
    THEN [ret |-> [success |-> FALSE, error |-> "Unexpected error"]] @@ none
    ELSE IF completion.name \notin ToolNames
    THEN [ret |-> [error |-> "Unknown function: " \o completion.name]] @@ none
    ELSE IF ~ArgsAccepted(completion.name, completion.arguments)
    THEN [ret |-> [success |-> FALSE, error |-> "Unexpected error"]] @@ none
    ELSE LET r == ToolCall(completion.name, completion.arguments, user_token,
                           T, U, t, id, rows, net)
         IN [ret |-> IF r.ret.success
                     THEN [success |-> TRUE, result |-> r.ret]
                     ELSE [success |-> FALSE, error |-> r.ret.error],
             exchange |-> r.exchange, store |-> r.store]

\* str(e) of the HTTPException call_tool raises for a name it does not
\* know: "404: Tool ... not found" where the exception class defines
\* __str__, the empty string where it does not.
NotFoundTexts == {"404: Tool not found", ""}

\* call_tool of the MCP server: the tools are named task.create, task.list,
\* task.update, task.delete, task.complete, and each is simulated without a
\* request to the backend.
call_tool(tool_name, arguments, text) ==
    IF tool_name \in {"task.create", "task.list"}
    THEN [success |-> TRUE, result |-> tool_name, error |-> None]
    ELSE IF tool_name \in {"task.update", "task.delete", "task.complete"}
    THEN IF arguments.task_id \in {EmptyTaskId, MissingTaskId}
         THEN [success |-> FALSE, result |-> "", error |-> "task_id is required"]
         ELSE [success |-> TRUE, result |-> tool_name, error |-> None]
    ELSE [success |-> FALSE, result |-> "", error |-> text]

\* One call into the agent: r is what the called function came to.
AgentCall(d, call, input, r) ==
    /\ resp = NoResponse
    /\ result.call = "none"
    /\ now + d <= MaxTime
    /\ now' = now + d
    /\ tasks' = r.store
    /\ nextTaskId' = IF r.exchange.op = "create" /\ r.exchange.code = 201
                     THEN nextTaskId + 1 ELSE nextTaskId
    /\ resp' = r.exchange
    /\ result' = [call |-> call, input |-> input, ret |-> r.ret]
    /\ UNCHANGED <<users, sessions, nextSession, loggedOut, conversations,
                   inflight, messages>>

\* The rows a GET /tasks/ of the caller may return (limit 50, offset 0).
ListedRows(user_token, t) ==
    get_tasks_by_user(tasks, get_current_user_id(user_token, t).user_id,
                      None, None, 50, 0)

\* Bound of the model: task_create runs only while an id is left.
IdsLeft(function_name) ==
    function_name = "task_create" => nextTaskId <= MaxTasks

\* A tool function called with its arguments.
CallToolFunction(d, function_name, args, user_token, net) ==
    /\ resp = NoResponse
    /\ result.call = "none"
    /\ IdsLeft(function_name)
    /\ \E rows \in ListedRows(user_token, now + d) :
          AgentCall(d, "tool", Completion("function_call", function_name, args),
                    ToolCall(function_name, args, user_token, tasks, users,
                             now + d, nextTaskId, rows, net))

\* TodoAgent.process_request: the completion is the language model's answer
\* to user_input.
ProcessRequest(d, completion, user_token, net) ==
    /\ resp = NoResponse
    /\ result.call = "none"
    /\ IdsLeft(completion.name)
    /\ \E rows \in ListedRows(user_token, now + d) :
          AgentCall(d, "process_request", completion,
                    process_request(completion, user_token, tasks, users,
                                    now + d, nextTaskId, rows, net))

\* AgentOrchestrator.execute_tool: tool_name and tool_args are put into a
\* sentence, and the sentence is given to process_request; what is executed
\* is what the language model answers to it.
ExecuteTool(d, tool_name, tool_args, completion, user_token, net) ==
    /\ resp = NoResponse
    /\ result.call = "none"
    /\ IdsLeft(completion.name)
    /\ \E rows \in ListedRows(user_token, now + d) :
          AgentCall(d, "execute_tool",
                    [tool_name |-> tool_name, tool_args |-> tool_args],
                    process_request(completion, user_token, tasks, users,
                                    now + d, nextTaskId, rows, net))

\* POST /v1/tools/{tool_name}/call of the MCP server.
CallTool(tool_name, arguments) ==
    /\ resp = NoResponse
    /\ result.call = "none"
    /\ \E text \in NotFoundTexts :
       AgentCall(0, "call_tool",
                 [tool_name |-> tool_name, arguments |-> arguments],
                 [ret |-> call_tool(tool_name, arguments, text),
                  exchange |-> NoResponse, store |-> tasks])

OneTask ==
    {create_task(TaskCreate(Payload("a", Unset, Unset, Unset, Unset)), "u1", 1)}

InitAgent ==
    /\ now = StartTime
    /\ users = RegisteredUsers
    /\ tasks = OneTask
    /\ nextTaskId = 2
    /\ sessions = {}
    /\ nextSession = 1
    /\ loggedOut = {}
    /\ conversations = {}
    /\ messages = <<>>
    /\ inflight = {}
    /\ resp = NoResponse
    /\ result = NoResult

\* No key at all, a title only, and a task_id (empty, malformed, of task 1,
\* of no task) with and without fields to update; a status and a priority
\* that are no member of the enums.
ArgsInputs ==
    {ToolArgs(MissingTaskId, title, Unset, Unset) : title \in {Unset, "b"}}
    \cup {ToolArgs(task_id, Unset, "completed", Unset) :
             task_id \in {EmptyTaskId, 0, 1, 2}}
    \cup {ToolArgs(1, title, Unset, Unset) : title \in {Unset, "b"}}
    \cup {ToolArgs(1, Unset, "archived", Unset),
          ToolArgs(1, "b", Unset, "urgent")}

\* Arguments a caller can hand to a tool function itself: the Args object
\* exists, so its required field is there.
DirectInputs(function_name) ==
    {a \in ArgsInputs : ArgsAccepted(function_name, a)}

Completions ==
    {Completion("function_call", name, a) :
        name \in ToolNames \cup {"task_archive"},
        a \in ArgsInputs \cup {Unreadable}}
    \cup {Completion("stop", "", Unreadable),
          Completion("api_error", "", Unreadable)}

\* What the language model may answer to the sentence of execute_tool.
ExecuteCompletions ==
    {Completion("function_call", name, ToolArgs(1, Unset, Unset, Unset)) :
        name \in {"task_complete", "task_delete", "task_archive"}}
    \cup {Completion("stop", "", Unreadable)}

Nets == {"ok", "unreachable", "timeout"}
AgentTokens == {TokenOf("u1"), Garbage}
McpNames ==
    {"task.create", "task.list", "task.update", "task.delete", "task.complete",
     "task_update", "task_archive"}
\* The arguments of a call of the MCP server: task_id, title and the field
\* names under "updates".
McpInputs ==
    {[task_id |-> task_id, title |-> title, updates |-> updates] :
        task_id \in {MissingTaskId, EmptyTaskId, 1},
        title \in {Unset, "b"},
        updates \in {{}, {"status"}}}

NextAgent ==
    \/ Deliver
    \/ \E d \in Elapsed, name \in ToolNames, token \in AgentTokens, net \in Nets :
          \E a \in DirectInputs(name) : CallToolFunction(d, name, a, token, net)
    \/ \E d \in Elapsed, c \in Completions, token \in AgentTokens, net \in Nets :
          ProcessRequest(d, c, token, net)
    \/ \E d \in Elapsed, name \in {"task_complete", "task_archive"},
          c \in ExecuteCompletions, token \in AgentTokens, net \in Nets :
          ExecuteTool(d, name, ToolArgs(1, Unset, Unset, Unset), c, token, net)
    \/ \E name \in McpNames, a \in McpInputs : CallTool(name, a)

SpecAgent == InitAgent /\ [][NextAgent]_vars

-----------------------------------------------------------------------------
(* Vocabulary of the properties.                                           *)

\* A step that handles a request (resp' is its response).
IsRequest == resp = NoResponse /\ resp' # NoResponse

\* What the client sees of a response.
Seen(r) == <<r.code, r.detail, r.body>>

ByIdOps == {"get", "update", "delete", "complete"}

\* The outcome of the by-id handler of request r on tasks table T at time t.
ByIdOutcome(T, U, r, t) ==
    LET uid == get_current_user_id(r.token, t).user_id IN
    CASE r.op = "get" -> route_get_task(T, r.tid, uid)
      [] r.op = "update" -> route_update_task(T, U, r.tid, r.req, uid, t)
      [] r.op = "delete" -> route_delete_task(T, r.tid, uid)
      [] OTHER -> route_complete_task(T, r.tid, uid, t)

RowsOfOthers(T, user_id) == {t \in T : t.user_id # user_id}
TaskIds(T) == {t.id : t \in T}

-----------------------------------------------------------------------------
(* C1: a get, update, delete or complete request of caller A for a task    *)
(* of another owner gets exactly the response (status, detail, body) that  *)
(* the same request gets when the task does not exist, namely the 404      *)
(* "not found", and it leaves the tasks table as it was, so no sequence of *)
(* such calls tells A whether the task exists.                             *)
C1_ForeignIsMissing ==
    [][(/\ IsRequest
        /\ resp'.op \in ByIdOps
        /\ get_current_user_id(resp'.token, now').ok
        /\ \E t \in tasks : t.id = resp'.tid /\ t.user_id # resp'.token.sub)
       => LET without == {t \in tasks : t.id # resp'.tid} IN
          /\ Seen(resp') = Seen(ByIdOutcome(without, users, resp', now'))
          /\ resp'.code = 404
          /\ resp'.detail = TaskNotFound
          /\ tasks' = tasks]_vars

\* Reached: a delete of another owner's task was answered 404.
C1_Witness ==
    /\ resp.op = "delete"
    /\ resp.code = 404
    /\ \E t \in tasks : t.id = resp.tid /\ t.user_id # resp.token.sub

-----------------------------------------------------------------------------
(* C2: no request of user A returns a task of another user, and no request *)
(* of A changes or removes a task of another user: the rows of the other   *)
(* users are the same before and after every request A makes.              *)
C2_OwnerScoped ==
    [][(IsRequest /\ get_current_user_id(resp'.token, now').ok)
       => /\ \A t \in resp'.body : t.user_id = resp'.token.sub
          /\ RowsOfOthers(tasks', resp'.token.sub)
                 = RowsOfOthers(tasks, resp'.token.sub)]_vars

\* Reached: A changed a task of its own while another user had a task.
C2_Witness ==
    /\ resp.op \in {"update", "complete", "delete"}
    /\ resp.code = 200
    /\ RowsOfOthers(tasks, resp.token.sub) # {}

-----------------------------------------------------------------------------
(* C10: a delete of an existing task of the caller answers success (True)  *)
(* and removes exactly that row, after which a get of it finds nothing and *)
(* a second delete returns False; a delete of a missing or foreign task    *)
(* returns False (404, no server error) and leaves the table unchanged;    *)
(* a task id that is gone never comes back.                                *)
C10_Delete ==
    [][(/\ IsRequest
        /\ resp'.op = "delete"
        /\ IsUUID(resp'.tid)
        /\ get_current_user_id(resp'.token, now').ok)
       => LET uid == resp'.token.sub
              own == get_task_by_id(tasks, resp'.tid, uid)
          IN /\ own # {} =>
                  /\ resp'.code = 200
                  /\ tasks' = tasks \ own
                  /\ get_task_by_id(tasks', resp'.tid, uid) = {}
                  /\ ~delete_task(tasks', resp'.tid, uid).deleted
             /\ own = {} => (resp'.code = 404 /\ tasks' = tasks)
             /\ \A id \in 1 .. (nextTaskId - 1) :
                    id \notin TaskIds(tasks) => id \notin TaskIds(tasks')]_vars

\* Reached: a delete of a task that was deleted before was answered 404.
C10_Witness ==
    /\ resp.op = "delete"
    /\ resp.code = 404
    /\ resp.tid \in 1 .. (nextTaskId - 1)
    /\ resp.tid \notin TaskIds(tasks)

-----------------------------------------------------------------------------
(* C6: every accepted create request stores and returns a task whose owner *)
(* is the subject of the caller's token, whose status is pending, and      *)
(* whose priority is medium unless the request gave one.                   *)
C6_CreateDefaults ==
    (resp.op = "create" /\ resp.code = 201)
    => /\ resp.body # {}
       /\ \A t \in resp.body :
            /\ t \in tasks
            /\ t.user_id = resp.token.sub
            /\ t.status = "pending"
            /\ t.priority = IF resp.req.priority = Unset THEN "medium"
                            ELSE resp.req.priority

-----------------------------------------------------------------------------
(* C7: a create request whose title is empty or longer than 200 characters *)
(* fails with a validation error and leaves the tasks table unchanged.     *)
C7_TitleValidated ==
    [][(/\ IsRequest
        /\ resp'.op = "create"
        /\ get_current_user_id(resp'.token, now').ok
        /\ resp'.req.title \notin {Unset, None}
        /\ (resp'.req.title = "" \/ Len(resp'.req.title) > TitleMaxLength))
       => (resp'.code = 422 /\ tasks' = tasks)]_vars

-----------------------------------------------------------------------------
(* C9.  An update of a task of the caller changes exactly the fields the   *)
(* partial update holds and leaves the other fields, the id, the owner,    *)
(* created_at and every other row as they were.                            *)

UpdatableFields == {"title", "description", "status", "priority", "due_date"}

\* Row new is row old with exactly the sent fields of data changed.
OnlySentFieldsChanged(old, new, data) ==
    /\ \A f \in UpdatableFields :
           new[f] = IF data[f] = Unset THEN old[f] ELSE data[f]
    /\ new.id = old.id
    /\ new.user_id = old.user_id
    /\ new.created_at = old.created_at

\* The update of the step's request was applied to row old, giving row new.
UpdatedRow(old, new) ==
    /\ old \in tasks
    /\ old.id = resp'.tid
    /\ resp'.body = {new}
    /\ tasks' = (tasks \ {old}) \cup {new}
    /\ OnlySentFieldsChanged(old, new, resp'.req)

IsOwnUpdate ==
    /\ IsRequest
    /\ resp'.op = "update"
    /\ get_task_by_id(tasks, resp'.tid, resp'.token.sub) # {}

\* C9 as claimed: updated_at becomes strictly later than it was.
C9_UpdateStrictlyLater ==
    [][IsOwnUpdate
       => \E old \in tasks, new \in tasks' :
              /\ UpdatedRow(old, new)
              /\ new.updated_at > old.updated_at]_vars

\* C9 as amended: updated_at becomes the clock reading of the update, which
\* is later than the previous value exactly when the clock has advanced
\* past it.
C9_UpdateSetsClock ==
    [][IsOwnUpdate
       => \E old \in tasks, new \in tasks' :
              /\ UpdatedRow(old, new)
              /\ new.updated_at = now'
              /\ (new.updated_at > old.updated_at <=> now' > old.updated_at)]_vars

\* Reached: an update that sent only a status left title, priority,
\* description and due date as they were and moved updated_at forward.
C9_Witness ==
    /\ resp.op = "update"
    /\ resp.code = 200
    /\ resp.req.status = "completed"
    /\ \A f \in UpdatableFields \ {"status"} : resp.req[f] = Unset
    /\ \E t \in resp.body :
           /\ t.status = "completed"
           /\ t.description = "d"
           /\ t.priority = "high"
           /\ t.updated_at = now
           /\ t.updated_at > t.created_at

-----------------------------------------------------------------------------
(* C8.  A list call with limit l and offset o for an owner with n tasks    *)
(* matching the filters returns min(l, max(n - o, 0)) tasks, all of the    *)
(* caller and all matching, together with total_count = n, the number of   *)
(* matching tasks before pagination.                                       *)

\* The rows of the caller that match the filters of the step's list call.
Matching ==
    MatchingTasks(tasks, resp'.token.sub, resp'.req.status, resp'.req.priority)

IsToolList ==
    /\ IsRequest
    /\ result'.call = "task_list_tool"

\* The page: its size, and whose rows it holds.
PageOf(rows) ==
    /\ rows \subseteq Matching
    /\ Cardinality(rows) =
           Min(resp'.limit, Max(Cardinality(Matching) - resp'.offset, 0))

C8_ListPageAndTotal ==
    [][IsToolList
       => /\ result'.success
          /\ PageOf(result'.tasks)
          /\ result'.total_count = Cardinality(Matching)]_vars

-----------------------------------------------------------------------------
(* C5.  get_session_by_token and get_session_by_user_id return only        *)
(* sessions with expires_at > now: a stored session whose expires_at is at *)
(* or before now is never returned by either lookup.                       *)

SessionLookups == {"get_session_by_token", "get_session_by_user_id"}

IsSessionLookup ==
    /\ result.call = "none"
    /\ result'.call \in SessionLookups

C5_LookupsSkipExpired ==
    [][IsSessionLookup
       => /\ \A x \in result'.rows : x \in sessions /\ x.expires_at > now'
          /\ UNCHANGED sessions]_vars

\* Reached: a lookup by token at the very clock reading a stored session
\* expires returned nothing.
C5_Witness ==
    /\ result.call = "get_session_by_token"
    /\ result.rows = {}
    /\ \E x \in sessions : x.token = result.token /\ x.expires_at = now

-----------------------------------------------------------------------------
(* C3.  A request to a protected endpoint whose bearer token is malformed, *)
(* wrongly signed, expired or without a subject ends with the generic      *)
(* authentication error and reads or writes no store.                      *)

ProtectedOps ==
    {"create", "list", "get", "update", "delete", "complete", "logout", "profile"}

IsAuthenticationError(r) ==
    /\ r.code = CredentialsError.code
    /\ r.detail = CredentialsError.detail

C3_InvalidTokenRejected ==
    [][(/\ IsRequest
        /\ resp'.op \in ProtectedOps
        /\ resp'.token \in InvalidTokens)
       => /\ IsAuthenticationError(resp')
          /\ ~resp'.db
          /\ UNCHANGED <<users, tasks, sessions>>]_vars

-----------------------------------------------------------------------------
(* C4.  After a successful logout, every later protected request with the  *)
(* bearer token the logout was made with fails authentication, until a new *)
(* login issues a new token.                                               *)

C4_LoggedOutTokenRejected ==
    [][(/\ IsRequest
        /\ resp'.op \in ProtectedOps
        /\ resp'.token \in loggedOut)
       => IsAuthenticationError(resp')]_vars

-----------------------------------------------------------------------------
(* C11.  complete(task_id, owner) gives the result and the table that      *)
(* update(task_id, owner, {status: completed}) gives at the same clock     *)
(* reading: nothing for a missing or foreign task, otherwise status        *)
(* completed, updated_at rewritten with the clock reading, also for a task *)
(* that is already completed, and no other field changed.                  *)

OnlyStatusCompleted == Payload(Unset, Unset, "completed", Unset, Unset)

\* The step is a complete request, or an update request that sends only
\* status completed, with a well-formed task id.
IsCompleteOrItsUpdate ==
    /\ IsRequest
    /\ IsUUID(resp'.tid)
    /\ \/ resp'.op = "complete"
       \/ /\ resp'.op = "update"
          /\ resp'.req.status = "completed"
          /\ \A f \in UpdatableFields \ {"status"} : resp'.req[f] = Unset

C11_CompleteIsUpdate ==
    [][IsCompleteOrItsUpdate
       => LET owner == resp'.token.sub
              c == complete_task(tasks, resp'.tid, owner, now')
              u == update_task(tasks, users, resp'.tid, owner,
                               OnlyStatusCompleted, now')
              found == get_task_by_id(tasks, resp'.tid, owner)
          IN /\ u.committed
             /\ c.task = u.task
             /\ c.store = u.store
             /\ resp'.body = c.task
             /\ tasks' = c.store
             /\ (c.task = {} <=> found = {})
             /\ found = {} => tasks' = tasks
             /\ \A old \in found : \E new \in c.task :
                    /\ new = [old EXCEPT !.status = "completed",
                                         !.updated_at = now']
                    /\ tasks' = (tasks \ {old}) \cup {new}]_vars

\* Reached: a complete request answered with a task that kept the title and
\* the priority an earlier update gave it and carries the clock reading of
\* the request.
C11_Witness ==
    /\ resp.op = "complete"
    /\ resp.code = 200
    /\ \E t \in resp.body :
           /\ t.status = "completed"
           /\ t.title = "b"
           /\ t.priority = "high"
           /\ t.updated_at = now
           /\ t \in tasks

-----------------------------------------------------------------------------
(* C12.  Registration with an email or a username a user already holds     *)
(* fails with the conflict error and creates no user; with a free email    *)
(* and username it creates the user, and a login that follows with the     *)
(* same email and password succeeds with a bearer token whose subject is   *)
(* the id of that user.                                                    *)

IsRegistration ==
    /\ IsRequest
    /\ resp'.op = "register"
    /\ UserCreateAccepts(resp'.req)

\* Some user holds the email or the username of the step's request.
Held ==
    \E u \in users : u.email = resp'.req.email \/ u.username = resp'.req.username

\* A login with the request's email and password, made on the table the
\* step leaves, at clock reading t, succeeds for user u.
LoginSucceedsFor(u, t) ==
    LET l == route_login(users', resp'.req.email, resp'.req.password, t) IN
    /\ l.code = 200
    /\ l.body # {}
    /\ \A x \in l.body :
           /\ x.token_type = "bearer"
           /\ x.access_token.sub = u.id
           /\ get_current_user_id(x.access_token, t).ok
           /\ get_current_user_id(x.access_token, t).user_id = u.id

C12_Registration ==
    [][IsRegistration
       => /\ Held => /\ resp'.code = 400
                     /\ resp'.detail = UserExists
                     /\ users' = users
          /\ ~Held => /\ resp'.code = 201
                      /\ \E u \in users' :
                             /\ users' = users \cup {u}
                             /\ u.id \notin {x.id : x \in users}
                             /\ u.email = resp'.req.email
                             /\ u.username = resp'.req.username
                             /\ resp'.body = {[id |-> u.id, email |-> u.email,
                                               username |-> u.username]}
                             /\ \A t \in now' .. MaxTime : LoginSucceedsFor(u, t)]_vars

\* Reached: a login answered with a token of the third user, whom a
\* registration created.
C12_Witness ==
    /\ resp.op = "login"
    /\ resp.code = 200
    /\ \E x \in resp.body : x.access_token.sub = "u3"
    /\ \E u \in users : u.id = "u3" /\ u.email = "e3"

-----------------------------------------------------------------------------
(* C13: a send-message or list-messages request for a conversation that   *)
(* another user owns gets the very response a request for a conversation   *)
(* id that does not exist gets (404, "Conversation not found or access     *)
(* denied", nothing in the body), appends no message and returns no        *)
(* message.                                                                *)

MessageOps == {"send_message", "get_messages"}

\* A conversation id no row has.
MissingConversation == MaxConversations + 1

\* The response of the same route to the same caller for MissingConversation.
ResponseForMissing(r) ==
    LET uid == r.token.sub IN
    IF r.op = "send_message"
    THEN route_send_message(conversations, messages, MissingConversation,
                            r.req.content, uid, now')
    ELSE route_get_conversation_messages(conversations, messages,
                                         MissingConversation, uid, <<>>)

IsForeignConversationRequest ==
    /\ IsRequest
    /\ resp'.op \in MessageOps
    /\ get_current_user_id(resp'.token, now').ok
    /\ \E c \in conversations :
          c.id = resp'.tid /\ c.user_id # resp'.token.sub

C13_ForeignConversationIsMissing ==
    [][IsForeignConversationRequest
       => /\ resp'.code = 404
          /\ resp'.code = ResponseForMissing(resp').code
          /\ resp'.detail = ResponseForMissing(resp').detail
          /\ resp'.body = ResponseForMissing(resp').body
          /\ resp'.body = {}
          /\ messages' = messages
          /\ conversations' = conversations]_vars

\* Reached: u2 asked for the messages of a conversation of u1 that holds
\* messages, and was told it does not exist.
C13_Witness ==
    /\ resp.op = "get_messages"
    /\ resp.code = 404
    /\ resp.token.sub = "u2"
    /\ \E c \in conversations : c.id = resp.tid /\ c.user_id = "u1"
    /\ Len(MessagesOf(messages, resp.tid)) >= 2

-----------------------------------------------------------------------------
(* C14: a successful send-message call on a conversation of the caller     *)
(* appends exactly two messages to it, first the user's message with the   *)
(* given content and then one assistant reply, returns both, and adds or   *)
(* changes no message of any other conversation.                           *)

IsSuccessfulSend ==
    /\ IsRequest
    /\ resp'.op = "send_message"
    /\ resp'.code = 200

\* The two rows a send appended to the conversation.
AppendedTurn(before, after, conversation_id) ==
    LET old == MessagesOf(before, conversation_id)
        new == MessagesOf(after, conversation_id)
    IN IF Len(new) = Len(old) + 2 /\ SubSeq(new, 1, Len(old)) = old
       THEN {<<new[Len(old) + 1], new[Len(old) + 2]>>}
       ELSE {}

C14_SendAppendsTurn ==
    [][IsSuccessfulSend
       => /\ \E c \in conversations :
                c.id = resp'.tid /\ c.user_id = resp'.token.sub
          /\ \E turn \in AppendedTurn(messages, messages', resp'.tid) :
                /\ turn[1].sender_type = "user"
                /\ turn[1].content = resp'.req.content
                /\ turn[2].sender_type = "ai_assistant"
                /\ turn[1].id # turn[2].id
                /\ \E b \in resp'.body :
                      /\ b.user_message.id = turn[1].id
                      /\ b.user_message.content = turn[1].content
                      /\ b.ai_response.id = turn[2].id
                      /\ b.ai_response.content = turn[2].content
          /\ Len(messages') = Len(messages) + 2
          /\ SubSeq(messages', 1, Len(messages)) = messages
          /\ \A other \in ConversationIds :
                other # resp'.tid
                => MessagesOf(messages', other) = MessagesOf(messages, other)]_vars

\* Reached: a second turn was sent while another conversation holds
\* messages.
C14_Witness ==
    /\ resp.op = "send_message"
    /\ resp.code = 200
    /\ Len(MessagesOf(messages, resp.tid)) = 2
    /\ \E i \in DOMAIN messages : messages[i].conversation_id # resp.tid

-----------------------------------------------------------------------------
(* C15: within one conversation the messages carry strictly increasing     *)
(* creation timestamps in the order they were appended, and list-messages  *)
(* returns them exactly in that order.                                     *)

C15_MessagesStrictlyOrdered ==
    /\ \A c \in ConversationIds :
          LET ms == MessagesOf(messages, c) IN
          \A i, j \in DOMAIN ms :
              i < j => ms[i].created_at < ms[j].created_at
    /\ (resp.op = "get_messages" /\ resp.code = 200)
       => \A b \in resp.body : b.messages = MessagesOf(messages, resp.tid)

-----------------------------------------------------------------------------
(* C16: a chat message that names a task and asks to complete it ("mark    *)
(* task 1 as done") invokes task_complete for that id on behalf of the     *)
(* caller: an existing task 1 of the caller has status completed after the *)
(* message was processed.                                                  *)

\* The task a chat message asks to complete (0: none).
TaskToComplete(message_content) ==
    IF message_content = "mark task 1 as done" THEN 1 ELSE 0

IsProcessedMessage ==
    /\ IsRequest
    /\ resp'.op = "send_message"
    /\ resp'.code = 200

C16_CompleteIsRouted ==
    [][(/\ IsProcessedMessage
        /\ \E x \in tasks :
              /\ x.id = TaskToComplete(resp'.req.content)
              /\ x.user_id = resp'.token.sub)
       => \E x \in tasks' :
              /\ x.id = TaskToComplete(resp'.req.content)
              /\ x.status = "completed"]_vars

-----------------------------------------------------------------------------
(* C17: a chat message that is a greeting, a thanks or unrecognized gets a *)
(* conversational reply and invokes no task operation: the tasks table is  *)
(* the same before and after the message is processed.                     *)

Conversational == {"Hello", "thanks", "xyz"}

ConversationalReply(message_content) ==
    CASE message_content = "Hello" -> GreetingReply
      [] message_content = "thanks" -> ThanksReply
      [] OTHER -> EchoReply(message_content)

C17_SmallTalkInvokesNothing ==
    [][(IsProcessedMessage /\ resp'.req.content \in Conversational)
       => /\ tasks' = tasks
          /\ nextTaskId' = nextTaskId
          /\ \E b \in resp'.body :
                b.ai_response.content = ConversationalReply(resp'.req.content)
          /\ messages'[Len(messages')].content
                = ConversationalReply(resp'.req.content)]_vars

\* Reached: "Hello" was answered while the caller has a pending and a
\* completed task.
C17_Witness ==
    /\ resp.op = "send_message"
    /\ resp.code = 200
    /\ resp.req.content = "Hello"
    /\ \E x, y \in tasks :
          /\ x.user_id = resp.token.sub /\ x.status = "pending"
          /\ y.user_id = resp.token.sub /\ y.status = "completed"

-----------------------------------------------------------------------------
(* Vocabulary of the agent properties.                                     *)

\* A step in which a call into the agent returned.
IsAgentCall == result.call = "none" /\ result'.call # "none" /\ "ret" \in DOMAIN result'

\* The returned value says the call failed, and says why.
Failed(ret) ==
    /\ "error" \in DOMAIN ret
    /\ "success" \in DOMAIN ret => ~ret.success

NoBackendCall == resp' = NoResponse /\ tasks' = tasks /\ nextTaskId' = nextTaskId

-----------------------------------------------------------------------------
(* C18: executing an operation whose name is not one of task_create,       *)
(* task_list, task_update, task_delete, task_complete fails with an        *)
(* unknown-operation error and reaches no backend call, in                 *)
(* AgentOrchestrator.execute_tool, in the dispatch of                      *)
(* TodoAgent.process_request and in call_tool of the MCP server.           *)

\* The name of the operation the call was to execute.
OperationName(r) ==
    IF r.call \in {"execute_tool", "call_tool"} THEN r.input.tool_name
    ELSE IF r.input.finish_reason = "function_call" THEN r.input.name
    ELSE "task_list"

C18_UnknownOperationFails ==
    [][(IsAgentCall /\ OperationName(result') \notin ToolNames)
       => Failed(result'.ret) /\ NoBackendCall]_vars

-----------------------------------------------------------------------------
(* C19: every outcome of TodoAgent.process_request and of a tool function  *)
(* is the envelope with a boolean success field and, when success is       *)
(* false, an error message.                                                *)

IsEnvelope(ret) ==
    /\ "success" \in DOMAIN ret
    /\ ret.success \in BOOLEAN
    /\ ~ret.success => ("error" \in DOMAIN ret /\ ret.error \notin {None, ""})

C19_UniformEnvelope ==
    [][(IsAgentCall /\ result'.call \in {"process_request", "tool"})
       => IsEnvelope(result'.ret)]_vars

-----------------------------------------------------------------------------
(* C20: an update tool call that carries a task_id but none of the fields  *)
(* to update fails with the no-fields-provided error, sends no request to  *)
(* the backend and leaves the task unchanged.                              *)

\* The call is an update with a task_id and no field: of the tool function
\* (directly or dispatched by process_request), or of the MCP server.
IsEmptyUpdate(r) ==
    IF r.call = "call_tool"
    THEN /\ r.input.tool_name = "task.update"
         /\ r.input.arguments.task_id >= 0
         /\ r.input.arguments.updates = {}
    ELSE /\ r.call \in {"process_request", "tool"}
         /\ r.input.finish_reason = "function_call"
         /\ r.input.name = "task_update"
         /\ r.input.arguments # Unreadable
         /\ r.input.arguments.task_id >= 0
         /\ r.input.arguments.title = Unset
         /\ r.input.arguments.status = Unset
         /\ r.input.arguments.priority = Unset

C20_EmptyUpdateFails ==
    [][(IsAgentCall /\ IsEmptyUpdate(result'))
       => /\ Failed(result'.ret)
          /\ "success" \in DOMAIN result'.ret
          /\ NoBackendCall]_vars

\* The tool function alone does what the claim says.
ToolFunctionRejectsEmptyUpdate ==
    [][(IsAgentCall /\ result'.call # "call_tool" /\ IsEmptyUpdate(result'))
       => /\ result'.ret.success = FALSE
          /\ result'.ret.error = "No fields provided to update"
          /\ NoBackendCall]_vars

-----------------------------------------------------------------------------
(* C21: a tool call that lacks a required argument (title for task_create, *)
(* task_id for task_update, task_delete, task_complete) or carries a       *)
(* status or priority outside the enums yields a failure result and        *)
(* creates, changes or deletes no task.                                    *)

\* The call of a tool function, directly or dispatched by process_request,
\* with arguments eval() could read.
IsToolFunctionCall(r) ==
    /\ r.call \in {"process_request", "tool"}
    /\ r.input.finish_reason = "function_call"
    /\ r.input.name \in ToolNames
    /\ r.input.arguments # Unreadable

LacksRequired(r) ==
    IF r.call = "call_tool"
    THEN \/ /\ r.input.tool_name = "task.create"
            /\ r.input.arguments.title = Unset
         \/ /\ r.input.tool_name \in {"task.update", "task.delete", "task.complete"}
            /\ r.input.arguments.task_id = MissingTaskId
    ELSE /\ IsToolFunctionCall(r)
         /\ \/ /\ r.input.name = "task_create"
               /\ r.input.arguments.title = Unset
            \/ /\ r.input.name \in {"task_update", "task_delete", "task_complete"}
               /\ r.input.arguments.task_id = MissingTaskId

OutsideEnum(r) ==
    /\ IsToolFunctionCall(r)
    /\ \/ /\ r.input.name = "task_update"
          /\ r.input.arguments.status \notin TaskStatus \cup {Unset}
       \/ /\ r.input.name \in {"task_create", "task_update"}
          /\ r.input.arguments.priority \notin TaskPriority \cup {Unset}

C21_BadArgumentsFail ==
    [][(IsAgentCall /\ (LacksRequired(result') \/ OutsideEnum(result')))
       => /\ Failed(result'.ret)
          /\ "success" \in DOMAIN result'.ret
          /\ tasks' = tasks]_vars

\* The tool functions and the dispatch of process_request alone do what the
\* claim says.
DispatchRejectsBadArguments ==
    [][(/\ IsAgentCall
        /\ result'.call # "call_tool"
        /\ (LacksRequired(result') \/ OutsideEnum(result')))
       => /\ result'.ret.success = FALSE
          /\ tasks' = tasks]_vars

-----------------------------------------------------------------------------
(* C22: refresh_session(token) on a session that has not expired sets its  *)
(* expires_at to now plus the full 30 days, whatever the stored expiry     *)
(* was, and keeps its id, user and token; on an unknown or expired token   *)
(* it returns None and changes no session.                                 *)

IsSessionCall(call) == result.call = "none" /\ result'.call = call

\* The stored sessions of a token that have not expired at t.
LiveSessions(S, token, t) == {x \in S : x.token = token /\ x.expires_at > t}

C22_RefreshFromNow ==
    [][IsSessionCall("refresh_session")
       => LET live == LiveSessions(sessions, result'.token, now') IN
          IF live = {}
          THEN /\ result'.rows = {}
               /\ ~result'.ok
               /\ sessions' = sessions
          ELSE /\ result'.ok
               /\ \E old \in live, new \in result'.rows :
                     /\ result'.rows = {new}
                     /\ new.expires_at = now' + SessionLifetime
                     /\ new.id = old.id
                     /\ new.user_id = old.user_id
                     /\ new.token = old.token
                     /\ new.created_at = old.created_at
                     /\ sessions' = (sessions \ {old}) \cup {new}]_vars

\* Reached: a session was refreshed half a lifetime after it was made, so
\* that its stored expiry and the clock lead to different results.
C22_Witness ==
    /\ result.call = "refresh_session"
    /\ result.ok
    /\ now > StartTime
    /\ \E x \in sessions :
          x.token = result.token /\ x.expires_at = now + SessionLifetime

-----------------------------------------------------------------------------
(* C23: a successful login creates a session record for the user: right    *)
(* after the login the session table holds a session of that user that has *)
(* not expired (get_session_by_user_id returns one), and a further login   *)
(* of the same user adds another session and keeps the earlier one.        *)

IsLogin == resp = NoResponse /\ resp'.op = "login"

C23_LoginCreatesSession ==
    [][IsLogin /\ resp'.code = 200
       => /\ \A x \in resp'.body :
                \E session \in get_session_by_user_id(sessions', x.access_token.sub, now') :
                    session # {}
          /\ sessions \subseteq sessions'
          /\ sessions' # sessions]_vars

-----------------------------------------------------------------------------
(* C30: a failed login gives the same response whether the email is        *)
(* unknown or the email is registered and the password is wrong: the same  *)
(* status, the same detail, no token and no change of state.               *)

\* The emails and passwords a client can send.
LoginEmails == {"e1", "e2", "e3"}
LoginPasswords == {"p1", "p2", "p3"}

C30_FailedLoginsAlike ==
    [][IsLogin /\ resp'.code # 200
       => /\ resp'.body = {}
          /\ users' = users /\ sessions' = sessions /\ loggedOut' = loggedOut
          /\ tasks' = tasks /\ conversations' = conversations
          /\ messages' = messages
          /\ \A email \in LoginEmails, password \in LoginPasswords :
                login_user(users, email, password, now') = {}
                => LET other == route_login(users, email, password, now') IN
                   /\ other.code = resp'.code
                   /\ other.detail = resp'.detail
                   /\ other.body = resp'.body]_vars

\* Reached: a login was refused while the table held a user whose password
\* the client can get wrong and lacked an email the client can send.
C30_Witness ==
    /\ resp.op = "login"
    /\ resp.code = 401
    /\ \E email \in LoginEmails : get_user_by_email(users, email) = {}
    /\ \E email \in LoginEmails, password \in LoginPasswords :
          /\ get_user_by_email(users, email) # {}
          /\ authenticate_user(users, email, password) = {}

-----------------------------------------------------------------------------
(* C28: once the expiry of a session has passed, no get, refresh,          *)
(* invalidate or invalidate-all call makes the lookup by token return it   *)
(* again: a call leaves an expired row as it is or deletes it and never    *)
(* returns it from a lookup or a refresh, and only create_session yields a *)
(* valid session, under a token no stored session carries.                 *)

C28_ExpiredStaysExpired ==
    [][result.call = "none" /\ result'.call # "none"
       => /\ \A x \in sessions :
                x.expires_at <= now'
                => /\ \A y \in sessions' :
                         (y.id = x.id \/ y.token = x.token) => y = x
                   /\ result'.call \in {"get_session_by_token",
                                        "get_session_by_user_id", "refresh_session"}
                      => \A r \in result'.rows : r.id # x.id /\ r.token # x.token
                   /\ get_session_by_token(sessions', x.token, now') = {{}}
          /\ \A y \in sessions' \ sessions :
                \/ \E x \in sessions :
                      x.id = y.id /\ x.token = y.token /\ x.expires_at > now'
                \/ /\ result'.call = "create_session"
                   /\ \A x \in sessions : x.token # y.token /\ x.id # y.id]_vars

\* Reached: a refresh was asked for a stored session whose expiry had
\* passed, and it returned None.
C28_Witness ==
    /\ result.call = "refresh_session"
    /\ ~result.ok
    /\ \E x \in sessions : x.token = result.token /\ x.expires_at <= now

-----------------------------------------------------------------------------
(* C29: invalidate_session(token) returns True exactly when a session with *)
(* that token exists that has not expired, and then deletes that session   *)
(* only; invalidate_all_sessions_for_user(user_id) deletes every session   *)
(* of the user, expired ones included, returns True exactly when the user  *)
(* had a row, and leaves the sessions of the other users as they are.      *)
(* After either call the lookup by an affected token returns None.         *)

C29_Invalidate ==
    [][/\ IsSessionCall("invalidate_session")
          => LET live == LiveSessions(sessions, result'.token, now') IN
             /\ result'.ok <=> live # {}
             /\ Cardinality(live) <= 1
             /\ sessions' = sessions \ live
             /\ get_session_by_token(sessions', result'.token, now') = {{}}
       /\ IsSessionCall("invalidate_all_sessions_for_user")
          => LET mine == {x \in sessions : x.user_id = result'.user_id} IN
             /\ result'.ok <=> mine # {}
             /\ sessions' = sessions \ mine
             /\ \A x \in sessions' : x.user_id # result'.user_id
             /\ \A x \in mine :
                   get_session_by_token(sessions', x.token, now') = {{}}]_vars

\* Reached: invalidate-all deleted an expired session of one user while a
\* session of another user stayed.
C29_Witness ==
    /\ result.call = "invalidate_all_sessions_for_user"
    /\ result.ok
    /\ \E x \in result.rows : x.expires_at <= now
    /\ \E y \in sessions : y.user_id # result.user_id

-----------------------------------------------------------------------------
(* C24: a list call never returns more than 100 tasks: a limit above 100   *)
(* is rejected or capped at 100.                                           *)

C24_ListAtMostHundred ==
    (resp.op = "list" /\ resp.code = 200) => Cardinality(resp.body) <= 100

-----------------------------------------------------------------------------
(* C25: after any sequence of create, update and complete calls, updates   *)
(* with an explicit null for a field included, every stored task has a     *)
(* status in {pending, in_progress, completed}, a priority in {low,        *)
(* medium, high, critical} and a non-empty title.                          *)

C25_StoredTasksValid ==
    \A t \in tasks :
        /\ t.status \in TaskStatus
        /\ t.priority \in TaskPriority
        /\ t.title \notin {None, ""}

\* The part that holds: no request, an explicit null included, leaves a
\* stored task with a status or a priority outside the enums or without a
\* title.
StoredEnumsValid ==
    \A t \in tasks :
        /\ t.status \in TaskStatus
        /\ t.priority \in TaskPriority
        /\ t.title # None

-----------------------------------------------------------------------------
(* C26: when two update requests on one owned task run side by side, in    *)
(* any interleaving of their reads and writes, the final field values of   *)
(* the task are those of applying the two updates one after the other in   *)
(* one of the two orders; the task is neither duplicated nor lost; and a   *)
(* request issued after another one has been answered is applied after it. *)

\* The fields a request can set.
SameFields(a, b) ==
    /\ a.id = b.id /\ a.user_id = b.user_id /\ a.created_at = b.created_at
    /\ a.title = b.title /\ a.description = b.description
    /\ a.status = b.status /\ a.priority = b.priority
    /\ a.due_date = b.due_date

\* The row after the update of request a and then that of request b.
Serial(row, a, b) == ApplyUpdate(ApplyUpdate(row, a.data, a.t), b.data, b.t)

\* Two answered updates of one task.
BothUpdated(a, b) ==
    /\ a \in inflight /\ b \in inflight
    /\ a.id # b.id
    /\ a.task_id = b.task_id
    /\ a.code = 200 /\ b.code = 200

C26_ConcurrentUpdatesSerial ==
    \A a, b \in inflight :
        BothUpdated(a, b)
        => \E row \in TwoTasks :
              /\ row.id = a.task_id
              /\ Cardinality({c \in tasks : c.id = row.id}) = 1
              /\ \A c \in tasks :
                    c.id = row.id
                    => /\ SameFields(c, Serial(row, a, b))
                          \/ SameFields(c, Serial(row, b, a))
                       /\ a.id \in b.after => SameFields(c, Serial(row, a, b))

\* The parts that hold: the task is neither duplicated nor lost, and a
\* request that began after the other one was answered is applied after it.
UpdatesInIssueOrder ==
    \A a, b \in inflight :
        BothUpdated(a, b)
        => \E row \in TwoTasks :
              /\ row.id = a.task_id
              /\ Cardinality({c \in tasks : c.id = row.id}) = 1
              /\ \A c \in tasks :
                    (c.id = row.id /\ a.id \in b.after)
                    => SameFields(c, Serial(row, a, b))

-----------------------------------------------------------------------------
(* C27: after any interleaving of registrations and profile updates served *)
(* side by side, no two stored users share an email and no two share a     *)
(* username: of two registrations with the same email or the same username *)
(* at most one creates a user, although each makes its existence check     *)
(* before its insert.                                                      *)

C27_UniqueUsers ==
    /\ \A u, v \in users :
          u # v => u.id # v.id /\ u.email # v.email /\ u.username # v.username
    /\ \A a, b \in inflight :
          (/\ a.id # b.id
           /\ a.op = "register" /\ b.op = "register"
           /\ a.code = 201 /\ b.code = 201)
          => /\ a.data.email # b.data.email
             /\ a.data.username # b.data.username

\* Reached: two registrations with one email both passed their checks, one
\* created the user and the insert of the other was refused.
C27_Witness ==
    \E a, b \in inflight :
        /\ a.op = "register" /\ b.op = "register"
        /\ a.data.email = b.data.email
        /\ a.code = 201
        /\ b.code = 500
        /\ \E u \in users : u.id = a.user_id /\ u.email = a.data.email

====
